---- MODULE Spec2Model ----
(***************************************************************************)
(* Model of the chat relay server: the client registry (server/state.py),  *)
(* the per-connection worker handle_client and the routing function route  *)
(* (server/main.py), with the body encryption of common/crypto.py.         *)
(*                                                                         *)
(* A connection, its socket and the Client record built for it are named   *)
(* by one connection id.  A session key is named by the id of the          *)
(* connection whose client generated it.                                   *)
(***************************************************************************)
EXTENDS Integers, Sequences, FiniteSets, TLC

\* ---------------------------------------------------------------- bounds
NumConns == 2
MaxRoutes == 1

\* ------------------------------------------------------------- constants
Conns == 1..NumConns
Users == {"alice", "bob"}
None == "None"
NoConn == 0
NoKey == 0
Bodies == {"hello"}
RoutedTypes == {"pub", "priv", "file_offer", "file_chunk", "file_ack"}
Star == "*"

VARIABLES
  clients,    \* state.clients: the records in insertion order (a record is named by its connection)
  recUser,    \* Client.username of the record built for a connection (None: no record built)
  aes_key,    \* Client.aes_key of the record built for a connection
  pc,         \* position of the worker thread of a connection
  username,   \* handle_client's local variable username
  closed,     \* the server has closed the socket
  renv,       \* route's argument env
  rbody,      \* route's local body
  rlist,      \* route's remaining recipients (records still to be written to)
  rcs,        \* route's local cs: the sender's record
  rmode,      \* the branch of route's dispatch that was taken
  routes,     \* number of envelopes the routing loops have taken so far
  lastw,      \* history: send_json calls of the last step, in order: <<[sock, env, ok], ...>>
  lastin,     \* history: the envelope the last step took from a socket, classified
  hist,       \* history: the record that held the name when the worker took the auth
  \* ---- one NetClient object (client/net.py)
  nsock,        \* self.sock: None or the socket object
  transport,    \* the socket object: "unopened", "open", "closed"
  session_key,  \* self.session_key
  running,      \* self.running
  recv_thread,  \* self.recv_thread: None or "started"
  on_message,   \* self._on_message: None or the callback
  backlog,      \* self._backlog: the list object it refers to
  lists,        \* the list objects: their contents
  cpc,          \* position of the thread in connect()
  craised,      \* the exception connect() raised, None when none
  creply,       \* history: the first reply connect() read
  nsent,        \* history: the envelope types connect() wrote, in order
  rpc,          \* position of the receive thread in _recv_loop
  renvc,        \* _recv_loop's local env
  rlistc,       \* _recv_loop: the list object loaded for the append
  decoded,      \* history: number of envelopes recv_json has returned to the loop
  spc,          \* position of the thread in the on_message setter
  pending,      \* the setter's local pending: a list object
  si,           \* the setter's position in its for loop over pending
  delivered,    \* history: the envelopes passed to the callback, in call order
  \* ---- ServerState.add_client step by step (server/state.py)
  lock,         \* ServerState.lock: the worker that holds it, NoConn when free
  apc,          \* position of each worker in its add_client call
  aret,         \* what each worker's add_client call returned, None before
  \* ---- one descriptor's byte stream and its reader (common/protocol.py)
  wire,         \* bytes sent on the current connection and not yet read
  buffers,      \* _buffers[fd]: the residual bytes kept under the descriptor
  peer_open,    \* the sending side of the current connection is still open
  wpc,          \* position of the reader in recv_json
  uses,         \* how many connections have had this descriptor number
  sent,         \* history: the objects written on the current connection
  returned,     \* history: what the recv_json calls on it produced, in order
  \* ---- ChatUI as uploader (client/ui.py)
  current_upload, \* ChatUI.current_upload: the file offered last and its id
  offers,       \* history: the addressee of each send_file call, by file id
  answered,     \* history: the <<peer, file id>> whose file_ack was handled
  rejected,     \* history: the file ids a file_ack with accept false named
  lastack,      \* history: the file_ack handled by the last step
  usent,        \* history: the envelopes the last step wrote, in order
  urunning,     \* NetClient.running: the receive loop that calls the handler
  \* ---- ChatUI as receiver of files (client/ui.py)
  current_downloads, \* ChatUI.current_downloads: file id -> context
  dhist,        \* history, per file id, of the chunks since the context began
  dlast,        \* history: the file_chunk body handled by the last step
  dres,         \* history: how the last step's handler ended
  lastsave,     \* history: what the last step's handler reconstructed
  drunning,     \* NetClient.running: the receive loop that calls the handler
  \* ---- NetClient.close (client/net.py)
  kpc,          \* position of the caller in close()
  kleave,       \* history: what became of close()'s leave envelope
  \* ---- the registry operations and the workers' socket calls (server)
  aop,          \* the registry operation each worker is in or has last called
  lastio,       \* history: the last socket call, and whether its worker held the lock
  \* ---- sendall by several threads on one socket (common/protocol.py)
  left,         \* the bytes each thread's sendall has still to pass to send()
  \* ---- push_userlist by steps (server/main.py)
  ppc,          \* each worker's position around its push_userlist call
  pusers,       \* push_userlist's local users
  psocks,       \* the sockets its loop has still to write to
  lastlist,     \* history: the users of the last userlist written to each socket
  \* ---- the direct deliveries of the workers to one recipient (server/main.py)
  written,      \* how many envelopes the client of each connection has written
  inq,          \* the envelopes on each connection its worker has not read yet
  frame,        \* the envelope each worker's route call is working on, 0: none
  outs          \* the forwards written to the recipient's socket, in order

\* the server's variables
svars == <<clients, recUser, aes_key, pc, username, closed,
           renv, rbody, rlist, rcs, rmode, routes, lastw, lastin, hist>>

\* the client's variables
nvars == <<nsock, transport, session_key, running, recv_thread, on_message,
           backlog, lists, cpc, craised, creply, nsent, rpc, renvc, rlistc,
           decoded, spc, pending, si, delivered>>

\* the variables of the add_client calls
avars == <<lock, apc, aret>>

\* the variables of the byte stream
wvars == <<wire, buffers, peer_open, wpc, uses, sent, returned>>

\* the variables of the uploader
uvars == <<current_upload, offers, answered, rejected, lastack, usent, urunning>>

\* the variables of the receiver of files
dvars == <<current_downloads, dhist, dlast, dres, lastsave, drunning>>

\* the variables of close()
kvars == <<kpc, kleave>>

\* the variables of the registry operations
lvars == <<aop, lastio>>

\* everything that is not the server's
\* the variables of the concurrent writers
tvars == <<left>>

\* the variables of push_userlist by steps
pvars == <<ppc, pusers, psocks, lastlist>>

\* the variables of the direct deliveries to one recipient
fvars == <<written, inq, frame, outs>>

xvars == <<nvars, avars, wvars, uvars, dvars, kvars, lvars, tvars, pvars, fvars>>

vars == <<svars, xvars>>

\* route's locals
rvars == <<renv, rbody, rlist, rcs, rmode>>

\* ------------------------------------------------------- sequence helpers
RECURSIVE SeqSelect(_, _)
SeqSelect(s, T) ==
  IF s = <<>> THEN <<>>
  ELSE IF Head(s) \in T THEN <<Head(s)>> \o SeqSelect(Tail(s), T)
       ELSE SeqSelect(Tail(s), T)

Range(s) == {s[i] : i \in 1..Len(s)}

RECURSIVE SeqMap(_, _)
SeqMap(s, f) ==
  IF s = <<>> THEN <<>> ELSE <<f[Head(s)]>> \o SeqMap(Tail(s), f)

\* ---------------------------------------------------------- server/state.py
\* The fields of the Client dataclass.
ClientFields == {"username", "sock", "aes_key"}

\* Client(**kw): the generated __init__ accepts only the declared fields.
ClientInitOk(kw) == kw \subseteq ClientFields

\* The record registered under a name, NoConn when there is none.
Lookup(reg, users, u) ==
  IF \E i \in 1..Len(reg) : users[reg[i]] = u
  THEN reg[CHOOSE i \in 1..Len(reg) : users[reg[i]] = u]
  ELSE NoConn

\* ServerState.add_client: the value returned.
add_client_ok(reg, users, u) == Lookup(reg, users, u) = NoConn

\* ServerState.add_client: the registry afterwards.
add_client(reg, users, c, u) ==
  IF Lookup(reg, users, u) # NoConn THEN reg ELSE Append(reg, c)

\* A removal that leaves the registry as it is.
remove_nothing(reg, users, u) == reg

\* ServerState.remove
remove(reg, users, u) == SeqSelect(reg, {c \in Conns : users[c] # u})

\* ServerState.get
get(u) == Lookup(clients, recUser, u)

\* ServerState.users
users_list(reg) == SeqMap(reg, recUser)

\* ServerState.broadcast (sockets) and ServerState.all_clients (records):
\* a record and its socket carry the same id.
broadcast(reg) == reg

\* A snapshot that misses the oldest record.
all_clients_but_first(reg) == IF reg = <<>> THEN reg ELSE Tail(reg)

all_clients(reg) == reg

\* -------------------------------------------------------- common/crypto.py
\* A body handed on as it is.
plain_body(key, body) == [text |-> body]

\* encrypt_body: the wrapper {"enc": {n, c, t}} pack_encrypted returns, here
\* the key and the body it was made from.
encrypt_body(key, body) == [enc |-> [k |-> key, body |-> body]]

\* A decryption that does not verify the tag.
decrypt_ok_untagged(key, payload) == "enc" \in DOMAIN payload

\* decrypt_body succeeds when the payload has the enc wrapper and the tag
\* verifies, which it does under the key that encrypted it and no other.
decrypt_ok(key, payload) ==
  /\ "enc" \in DOMAIN payload
  /\ payload.enc.k = key

decrypt_body(key, payload) == payload.enc.body

\* ------------------------------------------------------ common/protocol.py
\* send_json on a socket: the outcomes of sendall (TRUE: written, FALSE: it
\* raises).  A write to a socket the server has closed raises; a write to an
\* open socket raises when the peer has gone, which can happen at any time.
SendResults(s) == IF closed[s] THEN {FALSE} ELSE {TRUE, FALSE}

\* One send_json(s, env) call: ok when the envelope was written, not ok when
\* it raised.
Write(s, env, ok) == [sock |-> s, env |-> env, ok |-> ok]

SendJson(s, env, ok) == <<Write(s, env, ok)>>

\* ---------------------------------------------------------- server/main.py
Envelope(t, s, to, p) == [type |-> t, sender |-> s, to |-> to, payload |-> p]

\* An error envelope that does not name its addressee.
ErrorEnvUnaddressed(code, to) == Envelope("error", None, None, [code |-> code])

ErrorEnv(code, to) == Envelope("error", None, to, [code |-> code])
\* A bounce addressed to the missing recipient and naming the sender.
NotFoundEnvSwapped(sender, to) ==
  Envelope("error", None, to, [code |-> "USER_NOT_FOUND", user |-> sender])

NotFoundEnv(sender, to) ==
  Envelope("error", None, sender, [code |-> "USER_NOT_FOUND", user |-> to])
KeyEnv(to) == Envelope("key", None, to, [server_pub_pem |-> "RSA_PUB_PEM"])
SystemEnv(u, what) == Envelope("system", None, Star, [text |-> <<u, what>>])
UserlistEnv(us) == Envelope("userlist", None, Star, [users |-> us])

\* route's frame when no call is active.
NoEnv == Envelope(None, None, None, [none |-> TRUE])

\* History of a handshake: no auth taken yet.
NoAuth == -1

\* History of an input: the last step took no routed envelope.
NoIn == [kind |-> None, caller |-> NoConn, sender |-> NoConn,
         keyed |-> FALSE, decrypts |-> FALSE, name |-> None, own |-> FALSE]

\* NetClient.__init__ without on_message: nothing connected, nothing attached.
InitNet ==
  /\ nsock = None
  /\ transport = "unopened"
  /\ session_key = None
  /\ running = FALSE
  /\ recv_thread = None
  /\ on_message = None
  /\ backlog = 1
  /\ lists = <<<<>>, <<>>>>
  /\ cpc = "idle"
  /\ craised = None
  /\ creply = [type |-> None, code |-> None]
  /\ nsent = <<>>
  /\ rpc = "off"
  /\ renvc = 0
  /\ rlistc = 0
  /\ decoded = 0
  /\ spc = "idle"
  /\ pending = 0
  /\ si = 0
  /\ delivered = <<>>

\* History of an input: worker c took an envelope of kind k that is not routed.
InKind(c, k) == [NoIn EXCEPT !.kind = k, !.caller = c]

\* ServerState.__init__: the lock is free; no add_client call is under way.
InitAdd ==
  /\ lock = NoConn
  /\ apc = [c \in Conns |-> "idle"]
  /\ aret = [c \in Conns |-> None]

\* The module is loaded (_buffers is empty) and a first connection is open.
InitWire ==
  /\ wire = <<>>
  /\ buffers = <<>>
  /\ peer_open = TRUE
  /\ wpc = "idle"
  /\ uses = 1
  /\ sent = <<>>
  /\ returned = <<>>

\* ChatUI.current_upload when no file has been offered.
NoUpload == [path |-> <<>>, file_id |-> 0]

\* No file_ack was handled.
NoAck == [from |-> None, id |-> 0, accept |-> FALSE]

\* ChatUI.__init__, line 112, on a connected NetClient.
InitUpload ==
  /\ current_upload = NoUpload
  /\ offers = <<>>
  /\ answered = {}
  /\ rejected = {}
  /\ lastack = NoAck
  /\ usent = <<>>
  /\ urunning = TRUE

\* The file ids of the transfers a client receives.
DownloadIds == {1, 2}

\* current_downloads.get(fid) when there is no context.
NoCtx == [name |-> None, chunks |-> <<>>]

\* No final chunk has arrived.
NoSeq == -1

\* History of a context that has taken no chunk.
NoHist == [final |-> NoSeq, proper |-> TRUE]

NoChunk == [id |-> 0, seq |-> NoSeq, final |-> FALSE, data |-> <<>>]
NoSave == [id |-> 0, data |-> <<>>, saved |-> FALSE]

\* ChatUI.__init__, line 111.
InitDownload ==
  /\ current_downloads = [f \in DownloadIds |-> NoCtx]
  /\ dhist = [f \in DownloadIds |-> NoHist]
  /\ dlast = NoChunk
  /\ dres = None
  /\ lastsave = NoSave
  /\ drunning = TRUE

\* No socket call was made.
NoIo == [worker |-> NoConn, after |-> None, held |-> FALSE]

\* No registry operation other than add_client is under way.
InitLock ==
  /\ aop = [c \in Conns |-> "add_client"]
  /\ lastio = NoIo

\* No send_json call is under way.
InitSend == left = [c \in Conns |-> <<>>]

\* No worker has reached push_userlist; no userlist was written.
InitPush ==
  /\ ppc = [c \in Conns |-> "out"]
  /\ pusers = [c \in Conns |-> <<>>]
  /\ psocks = [c \in Conns |-> <<>>]
  /\ lastlist = [c \in Conns |-> <<>>]

\* The senders' connections are in their loops; nothing was written.
InitFifo ==
  /\ written = [c \in Conns |-> 0]
  /\ inq = [c \in Conns |-> <<>>]
  /\ frame = [c \in Conns |-> 0]
  /\ outs = <<>>

\* close() has not been called.
InitClose ==
  /\ kpc = "idle"
  /\ kleave = None

Init ==
  /\ InitNet
  /\ InitAdd
  /\ InitWire
  /\ InitUpload
  /\ InitDownload
  /\ InitClose
  /\ InitLock
  /\ InitSend
  /\ InitPush
  /\ InitFifo
  /\ clients = <<>>
  /\ recUser = [c \in Conns |-> None]
  /\ aes_key = [c \in Conns |-> NoKey]
  /\ pc = [c \in Conns |-> "recv_auth"]
  /\ username = [c \in Conns |-> None]
  /\ closed = [c \in Conns |-> FALSE]
  /\ renv = [c \in Conns |-> NoEnv]
  /\ rbody = [c \in Conns |-> None]
  /\ rlist = [c \in Conns |-> <<>>]
  /\ rcs = [c \in Conns |-> NoConn]
  /\ rmode = [c \in Conns |-> None]
  /\ routes = 0
  /\ lastw = <<>>
  /\ lastin = NoIn
  /\ hist = [c \in Conns |-> NoAuth]

\* A broadcast loop without try/except (send_system, push_userlist): the
\* index of the first write that raises, 0 when every write succeeds.
BcastOutcomes(L) ==
  {f \in 0..Len(L) :
     /\ \A j \in 1..(IF f = 0 THEN Len(L) ELSE f - 1) : TRUE \in SendResults(L[j])
     /\ f # 0 => FALSE \in SendResults(L[f])}

\* The send_json calls of such a loop: every socket before the failing one
\* got env, and the loop ends at the failing one.
BcastWrites(L, env, f) ==
  [j \in 1..(IF f = 0 THEN Len(L) ELSE f) |-> Write(L[j], env, j # f)]

\* send_system(msg) without to_sock
send_system(reg, u, what, f) == BcastWrites(broadcast(reg), SystemEnv(u, what), f)

\* push_userlist()
push_userlist(reg, f) == BcastWrites(broadcast(reg), UserlistEnv(users_list(reg)), f)

\* The keyword arguments handle_client passes to Client(...).
AuthKwargs == {"username", "sock", "avatar_id"}

\* The keyword arguments the Client dataclass declares without a default.
DeclaredKwargs == {"username", "sock"}

\* What recv_json hands the worker as first envelope: it raises (EOF or an
\* undecodable line; an auth envelope without a username raises at line 49
\* to the same effect), or returns an envelope of another type, or an auth.
AuthInputs == {[kind |-> "auth", user |-> u] : u \in Users}
FirstInputs ==
  {[kind |-> "raise", user |-> None], [kind |-> "other", user |-> None]}
  \cup AuthInputs

\* handle_client, lines 44-59, with kw the keyword arguments of the
\* Client(...) call: the first envelope, the registration and the server's
\* key envelope.  Connections are numbered in the order in which their
\* workers take the first envelope.
HandleAuthWith(c, kw, inputs) ==
  /\ UNCHANGED xvars
  /\ pc[c] = "recv_auth"
  /\ \A d \in Conns : d < c => pc[d] # "recv_auth"
  /\ \E in \in inputs :
       /\ lastin' = IF in.kind = "other" THEN InKind(c, "not_auth") ELSE NoIn
       /\ CASE in.kind = "raise" ->
              \* exception with username unset: finally only closes
              /\ pc' = [pc EXCEPT ![c] = "done"]
              /\ closed' = [closed EXCEPT ![c] = TRUE]
              /\ lastw' = <<>>
              /\ UNCHANGED <<clients, recUser, username, hist>>
         [] in.kind = "other" ->
              \E ok \in SendResults(c) :
                /\ lastw' = SendJson(c, ErrorEnv("EXPECT_AUTH", None), ok)
                /\ pc' = [pc EXCEPT ![c] = "done"]
                /\ closed' = [closed EXCEPT ![c] = TRUE]
                /\ UNCHANGED <<clients, recUser, username, hist>>
         [] in.kind = "auth" ->
              /\ username' = [username EXCEPT ![c] = in.user]
              /\ hist' = [hist EXCEPT ![c] = get(in.user)]
              /\ IF ~ClientInitOk(kw)
                 THEN \* TypeError from the dataclass __init__
                      /\ pc' = [pc EXCEPT ![c] = "finally"]
                      /\ lastw' = <<>>
                      /\ UNCHANGED <<clients, recUser, closed>>
                 ELSE IF ~add_client_ok(clients, recUser, in.user)
                 THEN \E ok \in SendResults(c) :
                        /\ lastw' = SendJson(c, ErrorEnv("DUPLICATE_USERNAME", None), ok)
                        /\ closed' = [closed EXCEPT ![c] = ok]
                        /\ pc' = [pc EXCEPT ![c] = "finally"]
                        /\ UNCHANGED <<clients, recUser>>
                 ELSE /\ recUser' = [recUser EXCEPT ![c] = in.user]
                      /\ clients' = add_client(clients, recUser', c, in.user)
                      /\ \E ok \in SendResults(c) :
                           /\ lastw' = SendJson(c, KeyEnv(in.user), ok)
                           /\ pc' = [pc EXCEPT ![c] = IF ok THEN "recv_key" ELSE "finally"]
                      /\ UNCHANGED closed
  /\ UNCHANGED <<aes_key, rvars, routes>>

\* handle_client, lines 44-59, as written.
HandleAuth(c) == HandleAuthWith(c, AuthKwargs, FirstInputs)

\* The same lines on an auth envelope, with the record built from the fields
\* state.py declares: the registry populated through ServerState.add_client.
HandleAuthDeclared(c) == HandleAuthWith(c, DeclaredKwargs, AuthInputs)

\* What recv_json hands the worker as second envelope.
KeyInputs == {"raise", "not_key", "key"}

\* handle_client, lines 68-72: the session keys after the key step of a
\* worker with local username u whose client wrapped key k.
StoreKey(keys, u, k) ==
  IF get(u) # NoConn THEN [keys EXCEPT ![get(u)] = k] ELSE keys

\* handle_client, lines 62-75: the client's key envelope, then
\* send_system("<username> joined the chatroom.") and push_userlist(); an
\* exception in either broadcast reaches the except clause.
RecvKey(c) ==
  /\ UNCHANGED xvars
  /\ pc[c] = "recv_key"
  /\ \E in \in KeyInputs :
       /\ lastin' = IF in = "not_key" THEN InKind(c, "not_key") ELSE NoIn
       /\ CASE in = "raise" ->
              /\ pc' = [pc EXCEPT ![c] = "finally"]
              /\ lastw' = <<>>
              /\ UNCHANGED <<clients, aes_key, closed>>
         [] in = "not_key" ->
              \E ok \in SendResults(c) :
                /\ lastw' = SendJson(c, ErrorEnv("EXPECT_AES_KEY", username[c]), ok)
                /\ clients' = IF ok THEN remove(clients, recUser, username[c]) ELSE clients
                /\ closed' = [closed EXCEPT ![c] = ok]
                /\ pc' = [pc EXCEPT ![c] = "finally"]
                /\ UNCHANGED aes_key
         [] in = "key" ->
              \* aes is the key the client of this connection wrapped
              /\ aes_key' = StoreKey(aes_key, username[c], c)
              /\ \E f1 \in BcastOutcomes(broadcast(clients)) :
                   LET w1 == send_system(clients, username[c], "joined", f1) IN
                     IF f1 # 0
                     THEN /\ lastw' = w1
                          /\ pc' = [pc EXCEPT ![c] = "finally"]
                     ELSE \E f2 \in BcastOutcomes(broadcast(clients)) :
                            /\ lastw' = w1 \o push_userlist(clients, f2)
                            /\ pc' = [pc EXCEPT ![c] = IF f2 = 0 THEN "loop" ELSE "finally"]
              /\ UNCHANGED <<clients, closed>>
  /\ UNCHANGED <<recUser, username, rvars, routes, hist>>

\* handle_client, lines 92-100, the finally clause with username set:
\* state.remove(username), the left notice, the userlist, conn.close().  An
\* exception in a broadcast leaves the clause before conn.close() and ends
\* the thread.
Finally(c) ==
  /\ UNCHANGED xvars
  /\ pc[c] = "finally"
  /\ LET reg == remove(clients, recUser, username[c]) IN
       /\ clients' = reg
       /\ \E f1 \in BcastOutcomes(broadcast(reg)) :
            LET w1 == send_system(reg, username[c], "left", f1) IN
              IF f1 # 0
              THEN /\ lastw' = w1
                   /\ UNCHANGED closed
              ELSE \E f2 \in BcastOutcomes(broadcast(reg)) :
                     /\ lastw' = w1 \o push_userlist(reg, f2)
                     /\ closed' = [closed EXCEPT ![c] = (f2 = 0) \/ closed[c]]
  /\ pc' = [pc EXCEPT ![c] = "done"]
  /\ username' = [username EXCEPT ![c] = None]
  /\ hist' = [hist EXCEPT ![c] = NoAuth]
  /\ lastin' = NoIn
  /\ UNCHANGED <<recUser, aes_key, rvars, routes>>

\* The payloads the client of connection c can put in a routed envelope: a
\* body encrypted under the session key it generated, an enc wrapper whose
\* tag verifies under no key, or a payload without the enc wrapper.
BadTag == -1
RoutePayloads(c) ==
  {encrypt_body(c, b) : b \in Bodies}
  \cup {encrypt_body(BadTag, b) : b \in Bodies}
  \cup {[text |-> "plain"]}

\* The envelopes with a routed type, sender field s and payload p: any type
\* and to field (route overwrites the to field of a pub, which clients send
\* as "*").
RouteInputs(s, p) ==
  {Envelope("pub", s, Star, p)}
  \cup {Envelope(t, s, to, p) : t \in RoutedTypes \ {"pub"}, to \in Users \cup {Star}}

\* History of an input: what the registry holds for the sender field s of a
\* routed envelope with payload p when the worker of c takes it, the name in
\* the sender field, and whether the body is encrypted under the key of the
\* client of c.
InFacts(c, s, p) ==
  LET r == Lookup(clients, recUser, s) IN
    [kind |-> "route", caller |-> c, sender |-> r,
     keyed |-> r # NoConn /\ aes_key[r] # NoKey,
     decrypts |-> /\ r # NoConn
                  /\ "enc" \in DOMAIN p
                  /\ p.enc.k = aes_key[r],
     name |-> s,
     own |-> "enc" \in DOMAIN p /\ p.enc.k = c]

\* route, line 106: the sender's record resolves and has a session key.
SenderUsable(cs) == cs # NoConn /\ aes_key[cs] # NoKey

\* A body check that looks for the wrapper only.
BodyWrapped(cs, payload) == "enc" \in DOMAIN payload

\* route, lines 109-114: the body decrypts under the sender's session key.
BodyDecrypts(cs, payload) == decrypt_ok(aes_key[cs], payload)

\* A route that goes on for any registered sender with an enc payload.
RouteAcceptsRegistered(sender, payload) ==
  get(sender) # NoConn /\ "enc" \in DOMAIN payload

\* route, lines 103-114: resolve the sender and decrypt; TRUE when route goes
\* on to the dispatch.
RouteAccepts(sender, payload) ==
  /\ SenderUsable(get(sender))
  /\ BodyDecrypts(get(sender), payload)

\* handle_client, lines 78-87, and route, lines 103-114.
LoopRecv(c) ==
  /\ UNCHANGED xvars
  /\ pc[c] = "loop"
  /\ \/ \* recv_json raises (EOF, undecodable line), the envelope has no
        \* payload, or it is system / leave
        /\ pc' = [pc EXCEPT ![c] = "finally"]
        /\ lastw' = <<>>
        /\ lastin' = NoIn
        /\ UNCHANGED <<rvars, routes>>
     \/ \* any other type that is not routed
        /\ routes < MaxRoutes
        /\ routes' = routes + 1
        /\ \E ok \in SendResults(c) :
             /\ lastw' = SendJson(c, ErrorEnv("UNKNOWN_TYPE", username[c]), ok)
             /\ pc' = [pc EXCEPT ![c] = IF ok THEN "loop" ELSE "finally"]
        /\ lastin' = InKind(c, "unknown")
        /\ UNCHANGED rvars
     \/ \* a routed type: route(env)
        /\ routes < MaxRoutes
        /\ routes' = routes + 1
        /\ \E s \in Users, p \in RoutePayloads(c) :
             /\ lastin' = InFacts(c, s, p)
             /\ IF RouteAccepts(s, p)
                THEN \E env \in RouteInputs(s, p) :
                       /\ renv' = [renv EXCEPT ![c] = env]
                       /\ rcs' = [rcs EXCEPT ![c] = get(s)]
                       /\ rbody' = [rbody EXCEPT ![c] = decrypt_body(aes_key[get(s)], p)]
                       /\ pc' = [pc EXCEPT ![c] = "route_dispatch"]
                ELSE \* silent drop, whatever the type and to fields: route returns
                     /\ UNCHANGED <<renv, rcs, rbody, pc>>
        /\ lastw' = <<>>
        /\ UNCHANGED <<rlist, rmode>>
  /\ UNCHANGED <<clients, recUser, aes_key, username, closed, hist>>

\* A direct delivery that asks only whether the recipient resolves.
DirectDeliverablePresent(t) == t # NoConn

\* route, line 141: the named recipient resolves and has a session key.
DirectDeliverable(t) == t # NoConn /\ aes_key[t] # NoKey

\* route, lines 116, 126, 138: the branch taken.
RouteBranch(env) ==
  IF env.type = "pub" THEN "pub"
  ELSE IF env.type = "file_offer" /\ env.to = Star THEN "offer"
  ELSE IF DirectDeliverable(get(env.to)) THEN "direct"
  ELSE "bounce"

\* route, lines 118, 128, 140: read the registry for the branch taken.
RouteDispatch(c) ==
  /\ UNCHANGED xvars
  /\ pc[c] = "route_dispatch"
  /\ LET m == RouteBranch(renv[c])
         L == IF m \in {"pub", "offer"} THEN all_clients(clients)
              ELSE IF m = "direct" THEN <<get(renv[c].to)>>
              ELSE <<>>
     IN /\ rmode' = [rmode EXCEPT ![c] = m]
        /\ rlist' = [rlist EXCEPT ![c] = L]
  /\ pc' = [pc EXCEPT ![c] = "route_send"]
  /\ lastw' = <<>>
  /\ lastin' = NoIn
  /\ UNCHANGED <<clients, recUser, aes_key, username, closed,
                 renv, rbody, rcs, routes, hist>>

\* A broadcast offer that skips only the records without a key.
OfferSkipsUnkeyed(r, sender) == aes_key[r] = NoKey

\* route, line 129: a recipient the broadcast offer skips.
OfferSkips(r, sender) == recUser[r] = sender \/ aes_key[r] = NoKey

\* route, lines 120-121, 132-133, 143: the to field of the envelope
\* forwarded to record r.
ForwardTo(env, m, r) ==
  IF m = "pub" THEN Star ELSE IF m = "offer" THEN recUser[r] ELSE env.to

\* A re-encryption under one key for everybody: the oldest record's.
ForwardKeyShared(r) == IF clients # <<>> THEN aes_key[clients[1]] ELSE aes_key[r]

\* route, lines 122, 134, 144: the key the body is re-encrypted under for
\* record r.
ForwardKey(r) == aes_key[r]

\* route, lines 120-122, 132-134, 143-144: the envelope forwarded to record r.
Forward(env, m, r, body) ==
  Envelope(env.type, env.sender, ForwardTo(env, m, r), encrypt_body(ForwardKey(r), body))

\* route's frame is torn down.
ClearFrame(c) ==
  /\ renv' = [renv EXCEPT ![c] = NoEnv]
  /\ rbody' = [rbody EXCEPT ![c] = None]
  /\ rlist' = [rlist EXCEPT ![c] = <<>>]
  /\ rcs' = [rcs EXCEPT ![c] = NoConn]
  /\ rmode' = [rmode EXCEPT ![c] = None]

\* route, lines 148-153: the socket the USER_NOT_FOUND error is bounced to.
BounceSock(c) == rcs[c]

\* route, lines 148-153: the bounce; it is not in a try, so an exception
\* reaches handle_client's except clause.
RouteBounce(c) ==
  /\ UNCHANGED xvars
  /\ pc[c] = "route_send"
  /\ rmode[c] = "bounce"
  /\ \E ok \in SendResults(BounceSock(c)) :
       /\ lastw' = SendJson(BounceSock(c), NotFoundEnv(renv[c].sender, renv[c].to), ok)
       /\ pc' = [pc EXCEPT ![c] = IF ok THEN "loop" ELSE "finally"]
  /\ ClearFrame(c)
  /\ lastin' = NoIn
  /\ UNCHANGED <<clients, recUser, aes_key, username, closed, routes, hist>>

\* route, lines 118-147: one iteration of a delivery loop or the direct
\* delivery, every exception swallowed; route returns after the last one.
RouteSend(c) ==
  /\ UNCHANGED xvars
  /\ pc[c] = "route_send"
  /\ rmode[c] # "bounce"
  /\ IF rlist[c] = <<>>
     THEN /\ lastw' = <<>>
          /\ pc' = [pc EXCEPT ![c] = "loop"]
          /\ ClearFrame(c)
     ELSE LET r == Head(rlist[c])
              e == Forward(renv[c], rmode[c], r, rbody[c])
          IN /\ IF Tail(rlist[c]) = <<>>
                THEN /\ pc' = [pc EXCEPT ![c] = "loop"]
                     /\ ClearFrame(c)
                ELSE /\ rlist' = [rlist EXCEPT ![c] = Tail(@)]
                     /\ UNCHANGED <<pc, renv, rbody, rcs, rmode>>
             /\ IF rmode[c] = "offer" /\ OfferSkips(r, renv[c].sender)
                THEN lastw' = <<>>
                ELSE IF ForwardKey(r) = NoKey
                THEN \* encrypt_body raises on a missing key
                     lastw' = <<>>
                ELSE \E ok \in SendResults(r) : lastw' = SendJson(r, e, ok)
  /\ lastin' = NoIn
  /\ UNCHANGED <<clients, recUser, aes_key, username, closed, routes, hist>>

\* The server: the workers as written, and the workers whose Client(...)
\* call names the declared fields only, which is how records enter the
\* registry.
Next ==
  \E c \in Conns :
    \/ HandleAuth(c)
    \/ HandleAuthDeclared(c)
    \/ RecvKey(c)
    \/ LoopRecv(c)
    \/ RouteDispatch(c)
    \/ RouteBounce(c)
    \/ RouteSend(c)
    \/ Finally(c)

Spec == Init /\ [][Next]_vars

\* The workers as written only: no record ever enters the registry.
NextAsWritten ==
  \E c \in Conns :
    \/ HandleAuth(c)
    \/ Finally(c)

SpecAsWritten == Init /\ [][NextAsWritten]_vars

\* The server with every worker thread scheduled fairly: a worker that has
\* reached its cleanup runs it.
SpecFair == Init /\ [][Next]_vars /\ \A c \in Conns : WF_vars(Finally(c))

\* handle_client, lines 44-56, on an auth envelope, the record built from
\* the declared fields: the worker has returned from state.add_client (or
\* has refused a taken name) and has not yet reached line 59.
Register(c) ==
  /\ UNCHANGED xvars
  /\ pc[c] = "recv_auth"
  /\ \A d \in Conns : d < c => pc[d] # "recv_auth"
  /\ \E in \in AuthInputs :
       /\ username' = [username EXCEPT ![c] = in.user]
       /\ hist' = [hist EXCEPT ![c] = get(in.user)]
       /\ IF ~add_client_ok(clients, recUser, in.user)
          THEN \E ok \in SendResults(c) :
                 /\ lastw' = SendJson(c, ErrorEnv("DUPLICATE_USERNAME", None), ok)
                 /\ closed' = [closed EXCEPT ![c] = ok]
                 /\ pc' = [pc EXCEPT ![c] = "finally"]
                 /\ UNCHANGED <<clients, recUser>>
          ELSE /\ recUser' = [recUser EXCEPT ![c] = in.user]
               /\ clients' = add_client(clients, recUser', c, in.user)
               /\ pc' = [pc EXCEPT ![c] = "send_key"]
               /\ lastw' = <<>>
               /\ UNCHANGED closed
  /\ lastin' = NoIn
  /\ UNCHANGED <<aes_key, rvars, routes>>

\* handle_client, line 59: the server's key envelope.
SendKey(c) ==
  /\ UNCHANGED xvars
  /\ pc[c] = "send_key"
  /\ \E ok \in SendResults(c) :
       /\ lastw' = SendJson(c, KeyEnv(username[c]), ok)
       /\ pc' = [pc EXCEPT ![c] = IF ok THEN "recv_key" ELSE "finally"]
  /\ lastin' = NoIn
  /\ UNCHANGED <<clients, recUser, aes_key, username, closed, rvars, routes, hist>>

\* The server with the workers interleaved between the registration and the
\* key envelope.
NextJoin ==
  \E c \in Conns :
    \/ Register(c)
    \/ SendKey(c)
    \/ RecvKey(c)
    \/ LoopRecv(c)
    \/ RouteDispatch(c)
    \/ RouteBounce(c)
    \/ RouteSend(c)
    \/ Finally(c)

SpecJoin == Init /\ [][NextJoin]_vars

\* main, lines 157-162: srv.accept() returns a new connection and a worker
\* thread is started for it. The connection takes the place of one whose
\* worker has ended and which no registry entry and no route frame refers
\* to any more; its record, when one is built, starts without a session key.
Accept(c) ==
  /\ UNCHANGED xvars
  /\ pc[c] = "done"
  /\ \A i \in 1..Len(clients) : clients[i] # c
  /\ \A d \in Conns : rcs[d] # c /\ (\A i \in 1..Len(rlist[d]) : rlist[d][i] # c)
  /\ pc' = [pc EXCEPT ![c] = "recv_auth"]
  /\ closed' = [closed EXCEPT ![c] = FALSE]
  /\ aes_key' = [aes_key EXCEPT ![c] = NoKey]
  /\ recUser' = [recUser EXCEPT ![c] = None]
  /\ lastw' = <<>>
  /\ lastin' = NoIn
  /\ UNCHANGED <<clients, username, rvars, routes, hist>>

\* The handshakes and cleanups of the workers, with connections that come
\* after others have gone.
NextRejoin ==
  \E c \in Conns :
    \/ HandleAuth(c)
    \/ HandleAuthDeclared(c)
    \/ RecvKey(c)
    \/ Finally(c)
    \/ Accept(c)

SpecRejoin == Init /\ [][NextRejoin]_vars

\* --------------------------------- server/main.py, push_userlist by steps
\* handle_client, lines 44-74, for a connection whose handshake succeeds:
\* the record is registered under a free name, the key is stored, the
\* joined notice is sent, and the worker reaches push_userlist at line 75.
PushJoin(c) ==
  /\ ppc[c] = "out"
  /\ \E u \in Users :
       /\ add_client_ok(clients, recUser, u)
       /\ recUser' = [recUser EXCEPT ![c] = u]
       /\ clients' = add_client(clients, recUser', c, u)
       /\ username' = [username EXCEPT ![c] = u]
  /\ aes_key' = [aes_key EXCEPT ![c] = c]
  /\ ppc' = [ppc EXCEPT ![c] = "users"]
  /\ UNCHANGED <<pusers, psocks, lastlist>>
  /\ UNCHANGED <<pc, closed, rvars, routes, lastw, lastin, hist>>
  /\ UNCHANGED <<nvars, avars, wvars, uvars, dvars, kvars, lvars, tvars, fvars>>

\* handle_client, lines 78-95: the worker leaves its loop; the finally
\* clause removes its name, sends the left notice and reaches push_userlist
\* at line 96.
PushLeave(c) ==
  /\ ppc[c] = "loop"
  /\ clients' = remove(clients, recUser, username[c])
  /\ ppc' = [ppc EXCEPT ![c] = "users"]
  /\ UNCHANGED <<pusers, psocks, lastlist>>
  /\ UNCHANGED <<recUser, aes_key, username, pc, closed, rvars, routes, lastw, lastin, hist>>
  /\ UNCHANGED <<nvars, avars, wvars, uvars, dvars, kvars, lvars, tvars, fvars>>

\* push_userlist, line 30: users = state.users()
PushUsers(c) ==
  /\ ppc[c] = "users"
  /\ pusers' = [pusers EXCEPT ![c] = users_list(clients)]
  /\ ppc' = [ppc EXCEPT ![c] = "socks"]
  /\ UNCHANGED <<psocks, lastlist>>
  /\ UNCHANGED <<svars, nvars, avars, wvars, uvars, dvars, kvars, lvars, tvars, fvars>>

\* push_userlist, line 33: the loop starts over state.broadcast()
PushSocks(c) ==
  /\ ppc[c] = "socks"
  /\ psocks' = [psocks EXCEPT ![c] = broadcast(clients)]
  /\ ppc' = [ppc EXCEPT ![c] = "write"]
  /\ UNCHANGED <<pusers, lastlist>>
  /\ UNCHANGED <<svars, nvars, avars, wvars, uvars, dvars, kvars, lvars, tvars, fvars>>

\* push_userlist, line 34: one send_json of the loop, or its end, after
\* which a joining worker enters its receive loop and a leaving one closes
\* its socket and ends.
PushWrite(c) ==
  /\ ppc[c] = "write"
  /\ IF psocks[c] # <<>>
     THEN /\ lastlist' = [lastlist EXCEPT ![Head(psocks[c])] = pusers[c]]
          /\ psocks' = [psocks EXCEPT ![c] = Tail(@)]
          /\ UNCHANGED ppc
     ELSE /\ ppc' = [ppc EXCEPT ![c] =
                       IF \E i \in 1..Len(clients) : clients[i] = c
                       THEN "loop" ELSE "done"]
          /\ UNCHANGED <<psocks, lastlist>>
  /\ UNCHANGED pusers
  /\ UNCHANGED <<svars, nvars, avars, wvars, uvars, dvars, kvars, lvars, tvars, fvars>>

\* The workers joining, pushing the userlist and leaving, interleaved.
NextPush ==
  \E c \in Conns :
    \/ PushJoin(c)
    \/ PushLeave(c)
    \/ PushUsers(c)
    \/ PushSocks(c)
    \/ PushWrite(c)

SpecPush == Init /\ [][NextPush]_vars

\* ------------------- server/main.py, the direct deliveries to one recipient
MaxFifo == 2     \* envelopes the client of one connection writes

\* recv_json returns the oldest line of the connection that is unread.
NewestLine(q) == Len(q)

OldestLine(q) == 1

\* The lines of q without the one at index i.
Without(q, i) == SubSeq(q, 1, i - 1) \o SubSeq(q, i + 1, Len(q))

\* The client of connection c, registered and keyed, writes its next priv
\* or file_chunk envelope for the recipient (net.py 118-123, 146-165).
ClientWrites(c) ==
  /\ written[c] < MaxFifo
  /\ written' = [written EXCEPT ![c] = @ + 1]
  /\ inq' = [inq EXCEPT ![c] = Append(@, written[c] + 1)]
  /\ UNCHANGED <<frame, outs>>
  /\ UNCHANGED <<svars, nvars, avars, wvars, uvars, dvars, kvars, lvars, tvars, pvars>>

\* handle_client, lines 79-82: the worker, back from the route call before,
\* reads the next envelope of its connection and calls route with it.
WorkerReads(c) ==
  /\ frame[c] = 0
  /\ inq[c] # <<>>
  /\ frame' = [frame EXCEPT ![c] = inq[c][OldestLine(inq[c])]]
  /\ inq' = [inq EXCEPT ![c] = Without(@, OldestLine(@))]
  /\ UNCHANGED <<written, outs>>
  /\ UNCHANGED <<svars, nvars, avars, wvars, uvars, dvars, kvars, lvars, tvars, pvars>>

\* route, lines 138-147, for a recipient that is registered and keyed: the
\* envelope is re-encrypted and written to the recipient's socket; a write
\* that raises is swallowed. route returns.
WorkerForwards(c) ==
  /\ frame[c] # 0
  /\ \E ok \in BOOLEAN :
       outs' = IF ok THEN Append(outs, <<c, frame[c]>>) ELSE outs
  /\ frame' = [frame EXCEPT ![c] = 0]
  /\ UNCHANGED <<written, inq>>
  /\ UNCHANGED <<svars, nvars, avars, wvars, uvars, dvars, kvars, lvars, tvars, pvars>>

\* The senders' clients and workers, interleaved.
NextFifo ==
  \E c \in Conns :
    \/ ClientWrites(c)
    \/ WorkerReads(c)
    \/ WorkerForwards(c)

SpecFifo == Init /\ [][NextFifo]_vars

\* ------------------------------------- server/state.py, add_client by steps
\* self.clients[c.username] = c: a new key goes to the end, an existing key
\* keeps its place and gets the new record.
DictSet(reg, users, c, u) ==
  IF Lookup(reg, users, u) = NoConn
  THEN Append(reg, c)
  ELSE [i \in 1..Len(reg) |-> IF users[reg[i]] = u THEN c ELSE reg[i]]

\* A lock that lets everybody in.
LockIgnored == TRUE

\* `with self.lock` can be entered.
LockFree == lock = NoConn

\* A worker builds the record Client(username=u, sock=conn).
BuildClient(c) ==
  /\ apc[c] = "idle"
  /\ \E u \in Users : recUser' = [recUser EXCEPT ![c] = u]
  /\ apc' = [apc EXCEPT ![c] = "built"]
  /\ UNCHANGED <<clients, lock, aret>>
  /\ UNCHANGED <<aes_key, pc, username, closed, rvars, routes, lastw, lastin, hist, nvars, wvars, uvars, dvars, kvars, lvars, tvars, pvars, fvars>>

\* The worker calls add_client with its record and reaches the with statement.
CallAddClient(c) ==
  /\ apc[c] = "built"
  /\ apc' = [apc EXCEPT ![c] = "acquire"]
  /\ UNCHANGED <<clients, recUser, lock, aret>>
  /\ UNCHANGED <<aes_key, pc, username, closed, rvars, routes, lastw, lastin, hist, nvars, wvars, uvars, dvars, kvars, lvars, tvars, pvars, fvars>>

\* add_client, line 20: the lock is taken.
AcquireLock(c) ==
  /\ apc[c] = "acquire"
  /\ LockFree
  /\ lock' = c
  /\ apc' = [apc EXCEPT ![c] = "check"]
  /\ UNCHANGED <<clients, recUser, aret>>
  /\ UNCHANGED <<aes_key, pc, username, closed, rvars, routes, lastw, lastin, hist, nvars, wvars, uvars, dvars, kvars, lvars, tvars, pvars, fvars>>

\* add_client, lines 21-22: the name is looked up; return False when taken.
CheckName(c) ==
  /\ apc[c] = "check"
  /\ IF Lookup(clients, recUser, recUser[c]) # NoConn
     THEN /\ aret' = [aret EXCEPT ![c] = "False"]
          /\ apc' = [apc EXCEPT ![c] = "release"]
     ELSE /\ apc' = [apc EXCEPT ![c] = "insert"]
          /\ UNCHANGED aret
  /\ UNCHANGED <<clients, recUser, lock>>
  /\ UNCHANGED <<aes_key, pc, username, closed, rvars, routes, lastw, lastin, hist, nvars, wvars, uvars, dvars, kvars, lvars, tvars, pvars, fvars>>

\* add_client, lines 23-24: the record is stored; return True.
InsertClient(c) ==
  /\ apc[c] = "insert"
  /\ clients' = DictSet(clients, recUser, c, recUser[c])
  /\ aret' = [aret EXCEPT ![c] = "True"]
  /\ apc' = [apc EXCEPT ![c] = "release"]
  /\ UNCHANGED <<recUser, lock>>
  /\ UNCHANGED <<aes_key, pc, username, closed, rvars, routes, lastw, lastin, hist, nvars, wvars, uvars, dvars, kvars, lvars, tvars, pvars, fvars>>

\* A with block that keeps the lock on the way out.
StillLocked(l, c) == l

\* Leaving `with self.lock` releases the lock its worker holds.
Unlocked(l, c) == IF l = c THEN NoConn ELSE l

\* add_client: the with block is left and the call returns.
ReleaseLock(c) ==
  /\ apc[c] = "release"
  /\ lock' = Unlocked(lock, c)
  /\ apc' = [apc EXCEPT ![c] = "returned"]
  /\ UNCHANGED <<clients, recUser, aret>>
  /\ UNCHANGED <<aes_key, pc, username, closed, rvars, routes, lastw, lastin, hist, nvars, wvars, uvars, dvars, kvars, lvars, tvars, pvars, fvars>>

\* The workers, each calling add_client once, in any interleaving.
NextAddClient ==
  \E c \in Conns :
    \/ BuildClient(c)
    \/ CallAddClient(c)
    \/ AcquireLock(c)
    \/ CheckName(c)
    \/ InsertClient(c)
    \/ ReleaseLock(c)

SpecAddClient == Init /\ [][NextAddClient]_vars

\* ---------------------- server/state.py and main.py, lock and socket calls
\* The registry operations besides add_client.
RegistryOps == {"remove", "get", "users", "broadcast", "all_clients"}

\* A worker calls remove, get, users, broadcast or all_clients and reaches
\* the with statement; remove is called with the worker's own username.
CallRegistry(c, op) ==
  /\ apc[c] = "idle"
  /\ op = "remove" => recUser[c] # None
  /\ aop' = [aop EXCEPT ![c] = op]
  /\ apc' = [apc EXCEPT ![c] = "acquire"]
  /\ UNCHANGED <<clients, recUser, lock, aret, lastio>>
  /\ UNCHANGED <<aes_key, pc, username, closed, rvars, routes, lastw, lastin, hist, nvars, wvars, uvars, dvars, kvars, tvars, pvars, fvars>>

\* state.py, lines 29, 34, 39, 44, 49: the body of the with block of the
\* five operations: remove pops the name, the others read the registry.
RegistryBody(c) ==
  /\ apc[c] = "check"
  /\ aop[c] \in RegistryOps
  /\ clients' = IF aop[c] = "remove"
                THEN remove(clients, recUser, recUser[c])
                ELSE clients
  /\ aret' = [aret EXCEPT ![c] = aop[c]]
  /\ apc' = [apc EXCEPT ![c] = "release"]
  /\ UNCHANGED <<recUser, lock, aop, lastio>>
  /\ UNCHANGED <<aes_key, pc, username, closed, rvars, routes, lastw, lastin, hist, nvars, wvars, uvars, dvars, kvars, tvars, pvars, fvars>>

\* main.py: the socket call a worker makes once the registry operation has
\* returned: the send_json after add_client (lines 55, 59), the writes of the
\* loops over broadcast() and all_clients() (25-26, 33-34, 118-137), the
\* write after get (140-153), conn.close() after remove (66, 94-98), the
\* recv_json that follows (62, 79).
NetIo(c) ==
  /\ apc[c] = "returned"
  /\ lastio' = [worker |-> c, after |-> aop[c], held |-> lock = c]
  /\ apc' = [apc EXCEPT ![c] = "idle"]
  /\ aop' = [aop EXCEPT ![c] = "add_client"]
  /\ aret' = [aret EXCEPT ![c] = None]
  /\ UNCHANGED <<clients, recUser, lock>>
  /\ UNCHANGED <<aes_key, pc, username, closed, rvars, routes, lastw, lastin, hist, nvars, wvars, uvars, dvars, kvars, tvars, pvars, fvars>>

\* The workers, each calling registry operations and making socket calls
\* between them, in any interleaving. A worker registers a record only
\* when it has none in the registry.
NextLock ==
  \E c \in Conns :
    \/ /\ \A i \in 1..Len(clients) : clients[i] # c
       /\ BuildClient(c)
    \/ CallAddClient(c)
    \/ AcquireLock(c)
    \/ /\ aop[c] = "add_client"
       /\ CheckName(c)
    \/ InsertClient(c)
    \/ ReleaseLock(c)
    \/ \E op \in RegistryOps : CallRegistry(c, op)
    \/ RegistryBody(c)
    \/ NetIo(c)

SpecLock == Init /\ [][NextLock]_vars

\* --------------------------------------- common/protocol.py, byte by byte
\* Bytes are named: "lb" and "rb" the braces of a JSON object, "a" a plain
\* character, "bs" a backslash, "n" the letter n, "nl" the newline byte.
\* An object is the text it carries, over the characters "a", "bs", "nl".
MaxMsgs == 2     \* envelopes written on one connection
MaxChunk == 4    \* most bytes one sock.recv returns
MaxUses == 2     \* connections that get the descriptor number, one after another

DELIM == "nl"

Objs == {<<"a">>, <<"nl">>, <<"bs">>}

JSONDecodeError == <<"JSONDecodeError">>
ConnectionError == <<"ConnectionError">>

\* json.dumps on the text of an object: a newline becomes backslash n, a
\* backslash is doubled.
RECURSIVE Escape(_)
Escape(t) ==
  IF t = <<>> THEN <<>>
  ELSE (CASE Head(t) = "nl" -> <<"bs", "n">>
          [] Head(t) = "bs" -> <<"bs", "bs">>
          [] OTHER -> <<Head(t)>>) \o Escape(Tail(t))

\* json.dumps(obj, ensure_ascii=False): the object in braces.
dumps(o) == <<"lb">> \o Escape(o) \o <<"rb">>

\* The inverse of Escape; "bad" marks what no dumps produces.
RECURSIVE Unescape(_)
Unescape(t) ==
  IF t = <<>> THEN <<>>
  ELSE IF Head(t) = "bs"
       THEN IF Len(t) >= 2 /\ t[2] \in {"n", "bs"}
            THEN <<IF t[2] = "n" THEN "nl" ELSE "bs">>
                 \o Unescape(SubSeq(t, 3, Len(t)))
            ELSE <<"bad">>
       ELSE IF Head(t) \in {"lb", "rb", "nl"}
            THEN <<"bad">>
            ELSE <<Head(t)>> \o Unescape(Tail(t))

\* json.loads(line): the object of a well-formed line, JSONDecodeError else.
loads(line) ==
  IF /\ Len(line) >= 2
     /\ line[1] = "lb"
     /\ line[Len(line)] = "rb"
  THEN LET body == Unescape(SubSeq(line, 2, Len(line) - 1))
       IN IF \E i \in 1..Len(body) : body[i] = "bad"
          THEN JSONDecodeError
          ELSE body
  ELSE JSONDecodeError

\* A search that never finds the delimiter.
FindNothing(buf) == 0

\* buf.find(DELIM): the index of the first delimiter, 0 when there is none.
Find(buf) ==
  IF \E i \in 1..Len(buf) : buf[i] = DELIM
  THEN CHOOSE i \in 1..Len(buf) :
         buf[i] = DELIM /\ \A j \in 1..(i - 1) : buf[j] # DELIM
  ELSE 0

\* send_json, line 19: the bytes of one envelope.
Data(o) == dumps(o) \o <<DELIM>>

\* The bytes of several envelopes written one after another.
RECURSIVE DataAll(_)
DataAll(os) == IF os = <<>> THEN <<>> ELSE Data(Head(os)) \o DataAll(Tail(os))

\* recv_json, line 39: what stays in the buffer after the line is taken.
Rest(buf, nl) == SubSeq(buf, nl + 1, Len(buf))

\* send_json(sock, o): sendall puts the whole line on the wire.
SendJsonBytes ==
  /\ peer_open
  /\ Len(sent) < MaxMsgs
  /\ \E o \in Objs :
       /\ wire' = wire \o Data(o)
       /\ sent' = Append(sent, o)
  /\ UNCHANGED <<buffers, peer_open, wpc, uses, returned>>
  /\ UNCHANGED <<svars, nvars, avars, uvars, dvars, kvars, lvars, tvars, pvars, fvars>>

\* The sending side closes its socket.
PeerClose ==
  /\ peer_open
  /\ peer_open' = FALSE
  /\ UNCHANGED <<wire, buffers, wpc, uses, sent, returned>>
  /\ UNCHANGED <<svars, nvars, avars, uvars, dvars, kvars, lvars, tvars, pvars, fvars>>

\* recv_json, lines 31-32: the call starts on the buffer kept under the
\* descriptor number.
RecvJsonCall ==
  /\ wpc = "idle"
  /\ wpc' = "find"
  /\ UNCHANGED <<wire, buffers, peer_open, uses, sent, returned>>
  /\ UNCHANGED <<svars, nvars, avars, uvars, dvars, kvars, lvars, tvars, pvars, fvars>>

\* recv_json, lines 36-41: with a delimiter in the buffer the first line is
\* cut off, decoded and returned (or json.loads raises); without one the
\* call goes on to read.
RecvJsonFind ==
  /\ wpc = "find"
  /\ LET nl == Find(buffers)
     IN IF nl # 0
        THEN /\ buffers' = Rest(buffers, nl)
             /\ returned' = Append(returned, loads(SubSeq(buffers, 1, nl - 1)))
             /\ wpc' = "idle"
        ELSE /\ wpc' = "read"
             /\ UNCHANGED <<buffers, returned>>
  /\ UNCHANGED <<wire, peer_open, uses, sent>>
  /\ UNCHANGED <<svars, nvars, avars, uvars, dvars, kvars, lvars, tvars, pvars, fvars>>

\* recv_json, lines 44-48: sock.recv returns some bytes of the stream, as
\* many as the network delivers at once, and they are appended; it returns
\* nothing once the peer has closed and the stream is read, and the call
\* raises ConnectionError.
RecvJsonRead ==
  /\ wpc = "read"
  /\ IF wire # <<>>
     THEN /\ \E k \in 1..MaxChunk :
               /\ k <= Len(wire)
               /\ buffers' = buffers \o SubSeq(wire, 1, k)
               /\ wire' = SubSeq(wire, k + 1, Len(wire))
          /\ wpc' = "find"
          /\ UNCHANGED returned
     ELSE /\ ~peer_open
          /\ returned' = Append(returned, ConnectionError)
          /\ wpc' = "raised"
          /\ UNCHANGED <<wire, buffers>>
  /\ UNCHANGED <<peer_open, uses, sent>>
  /\ UNCHANGED <<svars, nvars, avars, uvars, dvars, kvars, lvars, tvars, pvars, fvars>>

\* The reader closes its socket between two calls or after a raise, and the
\* next socket it opens or accepts gets the same descriptor number. Nothing
\* in the module removes an entry of _buffers.
Reopen ==
  /\ wpc \in {"idle", "raised"}
  /\ uses < MaxUses
  /\ uses' = uses + 1
  /\ wire' = <<>>
  /\ peer_open' = TRUE
  /\ wpc' = "idle"
  /\ sent' = <<>>
  /\ returned' = <<>>
  /\ UNCHANGED buffers
  /\ UNCHANGED <<svars, nvars, avars, uvars, dvars, kvars, lvars, tvars, pvars, fvars>>

NextWire ==
  \/ SendJsonBytes
  \/ PeerClose
  \/ RecvJsonCall
  \/ RecvJsonFind
  \/ RecvJsonRead
  \/ Reopen

SpecWire == Init /\ [][NextWire]_vars

\* ------------------------- common/protocol.py, send_json by several threads
\* send_json, lines 19-20, called by a worker thread for a socket that other
\* workers write to as well (main.py 25-26, 33-34, 123, 135, 145): the line
\* is encoded and sendall is entered. Nothing takes a lock.
SendallCall(c) ==
  /\ left[c] = <<>>
  /\ Len(sent) < MaxMsgs
  /\ \E o \in Objs :
       /\ left' = [left EXCEPT ![c] = Data(o)]
       /\ sent' = Append(sent, o)
  /\ UNCHANGED <<wire, buffers, peer_open, wpc, uses, returned>>
  /\ UNCHANGED <<svars, nvars, avars, uvars, dvars, kvars, lvars, pvars, fvars>>

\* sock.sendall: one pass of bytes to the socket. sendall hands the kernel
\* what is left until nothing is; the kernel takes all of it or, when the
\* send buffer is short of room, a part, and the interpreter lock is not
\* held meanwhile, so another thread's bytes can be taken in between.
SendallSend(c) ==
  /\ left[c] # <<>>
  /\ \E k \in 1..Len(left[c]) :
       /\ wire' = wire \o SubSeq(left[c], 1, k)
       /\ left' = [left EXCEPT ![c] = SubSeq(left[c], k + 1, Len(left[c]))]
  /\ UNCHANGED <<buffers, peer_open, wpc, uses, sent, returned>>
  /\ UNCHANGED <<svars, nvars, avars, uvars, dvars, kvars, lvars, pvars, fvars>>

\* The worker threads writing to one socket.
NextSend ==
  \E c \in Conns :
    \/ SendallCall(c)
    \/ SendallSend(c)

SpecSend == Init /\ [][NextSend]_vars

\* ------------------------------------------------------- client/net.py
\* The envelopes the receive loop can decode, named by their arrival number.
MaxEnvs == 2

\* The synthetic system envelope of _recv_loop, lines 194-195: it has no
\* arrival number.
Disconnected == 0

\* The callback the UI attaches.
Callback == "cb"

\* What recv_json hands connect() as first reply: an error envelope with a
\* code (None: no payload), the server's key envelope, an envelope of
\* another type, or it raises.
FirstReplies ==
  {[type |-> "error", code |-> k] : k \in {"DUPLICATE_USERNAME", "EXPECT_AUTH", None}}
  \cup {[type |-> t, code |-> None] : t \in {"key", "system", "raise"}}

\* connect(), lines 78-81: the failure every error code raises alike.
ErrorRaisedAlike(code) == "DuplicateUsernameError"

\* connect(), lines 78-81: the typed failure for an error code.
ErrorRaised(code) ==
  IF code = "DUPLICATE_USERNAME" THEN "DuplicateUsernameError" ELSE "RuntimeError"

\* connect(), lines 62-66: the connection is made and auth is written.
ConnectSendAuth ==
  /\ cpc = "idle"
  /\ transport' = "open"
  /\ nsock' = "sock"
  /\ nsent' = Append(nsent, "auth")
  /\ cpc' = "wait_reply"
  /\ UNCHANGED <<session_key, running, recv_thread, on_message, backlog, lists,
                 craised, creply, rpc, renvc, rlistc, decoded, spc, pending, si,
                 delivered>>
  /\ UNCHANGED <<svars, avars, wvars, uvars, dvars, kvars, lvars, tvars, pvars, fvars>>

\* connect(), lines 68-92: the first reply; on an error envelope the socket
\* is closed, self.sock reset and the typed failure raised; on the key
\* envelope the session key is generated and the receive thread started.
ConnectReply ==
  /\ cpc = "wait_reply"
  /\ \E r \in FirstReplies :
       /\ creply' = r
       /\ CASE r.type = "error" ->
                 /\ transport' = "closed"
                 /\ nsock' = None
                 /\ craised' = ErrorRaised(r.code)
                 /\ cpc' = "raised"
                 /\ UNCHANGED <<session_key, running, recv_thread, rpc>>
            [] r.type = "key" ->
                 /\ session_key' = "K"
                 /\ running' = TRUE
                 /\ recv_thread' = "started"
                 /\ rpc' = "recv"
                 /\ cpc' = "send_key"
                 /\ UNCHANGED <<transport, nsock, craised>>
            [] r.type = "system" ->
                 \* line 83: no server_pub_pem in the payload
                 /\ craised' = "KeyError"
                 /\ cpc' = "raised"
                 /\ UNCHANGED <<transport, nsock, session_key, running, recv_thread, rpc>>
            [] r.type = "raise" ->
                 /\ craised' = "ConnectionError"
                 /\ cpc' = "raised"
                 /\ UNCHANGED <<transport, nsock, session_key, running, recv_thread, rpc>>
  /\ UNCHANGED <<on_message, backlog, lists, nsent, renvc, rlistc, decoded,
                 spc, pending, si, delivered>>
  /\ UNCHANGED <<svars, avars, wvars, uvars, dvars, kvars, lvars, tvars, pvars, fvars>>

\* connect(), lines 94-95: the key envelope is written, or the write raises.
ConnectSendKey ==
  /\ cpc = "send_key"
  /\ \/ /\ nsent' = Append(nsent, "key")
        /\ cpc' = "returned"
        /\ UNCHANGED craised
     \/ /\ craised' = "OSError"
        /\ cpc' = "raised"
        /\ UNCHANGED nsent
  /\ UNCHANGED <<nsock, transport, session_key, running, recv_thread, on_message,
                 backlog, lists, creply, rpc, renvc, rlistc, decoded, spc,
                 pending, si, delivered>>
  /\ UNCHANGED <<svars, avars, wvars, uvars, dvars, kvars, lvars, tvars, pvars, fvars>>

\* _recv_loop, lines 183-184: recv_json returns the next envelope or raises.
RecvNext ==
  /\ rpc = "recv"
  /\ running
  /\ \/ /\ decoded < MaxEnvs
        /\ decoded' = decoded + 1
        /\ renvc' = decoded + 1
        /\ rpc' = "test"
     \/ /\ rpc' = "except"
        /\ UNCHANGED <<decoded, renvc>>
  /\ UNCHANGED <<nsock, transport, session_key, running, recv_thread, on_message,
                 backlog, lists, cpc, craised, creply, nsent, rlistc, spc,
                 pending, si, delivered>>
  /\ UNCHANGED <<svars, avars, wvars, uvars, dvars, kvars, lvars, tvars, pvars, fvars>>

\* _recv_loop, line 185: is a callback attached?
RecvTest ==
  /\ rpc = "test"
  /\ rpc' = IF on_message # None THEN "call" ELSE "load"
  /\ UNCHANGED <<nsock, transport, session_key, running, recv_thread, on_message,
                 backlog, lists, cpc, craised, creply, nsent, renvc, rlistc,
                 decoded, spc, pending, si, delivered>>
  /\ UNCHANGED <<svars, avars, wvars, uvars, dvars, kvars, lvars, tvars, pvars, fvars>>

\* _recv_loop, line 186: the callback is called with the envelope.
RecvCall ==
  /\ rpc = "call"
  /\ delivered' = Append(delivered, renvc)
  /\ rpc' = "recv"
  /\ UNCHANGED <<nsock, transport, session_key, running, recv_thread, on_message,
                 backlog, lists, cpc, craised, creply, nsent, renvc, rlistc,
                 decoded, spc, pending, si>>
  /\ UNCHANGED <<svars, avars, wvars, uvars, dvars, kvars, lvars, tvars, pvars, fvars>>

\* _recv_loop, lines 186 and 190: the callback is called with the envelope
\* and raises; the call is inside the try block, so control leaves the
\* while loop for the except clause.
RecvCallRaises ==
  /\ rpc = "call"
  /\ delivered' = Append(delivered, renvc)
  /\ rpc' = "except"
  /\ UNCHANGED <<nsock, transport, session_key, running, recv_thread, on_message,
                 backlog, lists, cpc, craised, creply, nsent, renvc, rlistc,
                 decoded, spc, pending, si>>
  /\ UNCHANGED <<svars, avars, wvars, uvars, dvars, kvars, lvars, tvars, pvars, fvars>>

\* _recv_loop, line 189: self._backlog is loaded ...
RecvLoad ==
  /\ rpc = "load"
  /\ rlistc' = backlog
  /\ rpc' = "append"
  /\ UNCHANGED <<nsock, transport, session_key, running, recv_thread, on_message,
                 backlog, lists, cpc, craised, creply, nsent, renvc, decoded,
                 spc, pending, si, delivered>>
  /\ UNCHANGED <<svars, avars, wvars, uvars, dvars, kvars, lvars, tvars, pvars, fvars>>

\* ... and the envelope appended to the list object that was loaded.
RecvAppend ==
  /\ rpc = "append"
  /\ lists' = [lists EXCEPT ![rlistc] = Append(@, renvc)]
  /\ rpc' = "recv"
  /\ UNCHANGED <<nsock, transport, session_key, running, recv_thread, on_message,
                 backlog, cpc, craised, creply, nsent, renvc, rlistc, decoded,
                 spc, pending, si, delivered>>
  /\ UNCHANGED <<svars, avars, wvars, uvars, dvars, kvars, lvars, tvars, pvars, fvars>>

\* _recv_loop, lines 190-193: the loop ended on an exception.
RecvExcept ==
  /\ rpc = "except"
  /\ running' = FALSE
  /\ rpc' = IF on_message # None THEN "exc_call" ELSE "end"
  /\ UNCHANGED <<nsock, transport, session_key, recv_thread, on_message,
                 backlog, lists, cpc, craised, creply, nsent, renvc, rlistc,
                 decoded, spc, pending, si, delivered>>
  /\ UNCHANGED <<svars, avars, wvars, uvars, dvars, kvars, lvars, tvars, pvars, fvars>>

\* _recv_loop, lines 194-195: the callback is called with the notice.
RecvExcCall ==
  /\ rpc = "exc_call"
  /\ delivered' = Append(delivered, Disconnected)
  /\ rpc' = "end"
  /\ UNCHANGED <<nsock, transport, session_key, running, recv_thread, on_message,
                 backlog, lists, cpc, craised, creply, nsent, renvc, rlistc,
                 decoded, spc, pending, si>>
  /\ UNCHANGED <<svars, avars, wvars, uvars, dvars, kvars, lvars, tvars, pvars, fvars>>

\* on_message setter, line 45, called by another thread with the callback.
SetAssign ==
  /\ spc = "idle"
  /\ on_message' = Callback
  /\ spc' = "test"
  /\ UNCHANGED <<nsock, transport, session_key, running, recv_thread, backlog,
                 lists, cpc, craised, creply, nsent, rpc, renvc, rlistc,
                 decoded, pending, si, delivered>>
  /\ UNCHANGED <<svars, avars, wvars, uvars, dvars, kvars, lvars, tvars, pvars, fvars>>

\* on_message setter, line 47: is there a backlog?
SetTest ==
  /\ spc = "test"
  /\ spc' = IF lists[backlog] # <<>> THEN "load" ELSE "done"
  /\ UNCHANGED <<nsock, transport, session_key, running, recv_thread, on_message,
                 backlog, lists, cpc, craised, creply, nsent, rpc, renvc,
                 rlistc, decoded, pending, si, delivered>>
  /\ UNCHANGED <<svars, avars, wvars, uvars, dvars, kvars, lvars, tvars, pvars, fvars>>

\* on_message setter, line 48: pending is the backlog's list object.
SetLoad ==
  /\ spc = "load"
  /\ pending' = backlog
  /\ spc' = "clear"
  /\ UNCHANGED <<nsock, transport, session_key, running, recv_thread, on_message,
                 backlog, lists, cpc, craised, creply, nsent, rpc, renvc,
                 rlistc, decoded, si, delivered>>
  /\ UNCHANGED <<svars, avars, wvars, uvars, dvars, kvars, lvars, tvars, pvars, fvars>>

\* on_message setter, line 49: self._backlog is a new empty list.
SetClear ==
  /\ spc = "clear"
  /\ backlog' = 2
  /\ si' = 1
  /\ spc' = "flush"
  /\ UNCHANGED <<nsock, transport, session_key, running, recv_thread, on_message,
                 lists, cpc, craised, creply, nsent, rpc, renvc, rlistc,
                 decoded, pending, delivered>>
  /\ UNCHANGED <<svars, avars, wvars, uvars, dvars, kvars, lvars, tvars, pvars, fvars>>

\* on_message setter, lines 50-55: one turn of the for loop over pending,
\* which ends when the index has reached the list's length at that time.
SetFlush ==
  /\ spc = "flush"
  /\ IF si <= Len(lists[pending])
     THEN /\ delivered' = Append(delivered, lists[pending][si])
          /\ si' = si + 1
          /\ UNCHANGED spc
     ELSE /\ spc' = "done"
          /\ UNCHANGED <<delivered, si>>
  /\ UNCHANGED <<nsock, transport, session_key, running, recv_thread, on_message,
                 backlog, lists, cpc, craised, creply, nsent, rpc, renvc,
                 rlistc, decoded, pending>>
  /\ UNCHANGED <<svars, avars, wvars, uvars, dvars, kvars, lvars, tvars, pvars, fvars>>

\* One NetClient: the thread in connect(), the receive thread, and the
\* thread that attaches the callback.
NextNet ==
  \/ ConnectSendAuth
  \/ ConnectReply
  \/ ConnectSendKey
  \/ RecvNext
  \/ RecvTest
  \/ RecvCall
  \/ RecvLoad
  \/ RecvAppend
  \/ RecvExcept
  \/ RecvExcCall
  \/ SetAssign
  \/ SetTest
  \/ SetLoad
  \/ SetClear
  \/ SetFlush

SpecNet == Init /\ [][NextNet]_vars

\* One NetClient whose callback can raise. In the setter's replay, lines
\* 50-55, each call has its own try/except and the loop goes on either way
\* (SetFlush); in the receive loop the call has none of its own.
NextCallback ==
  \/ NextNet
  \/ RecvCallRaises

SpecCallback == Init /\ [][NextCallback]_vars

\* -------------------------------------------- client/net.py, close()
\* A handler that catches nothing.
CaughtNever(exc) == FALSE

\* `except Exception` catches what send_json and sock.close() raise.
Caught(exc) == exc \in {"OSError", "TypeError", "ValueError"}

\* close(), lines 98-103: with a socket the leave envelope is written, or
\* the write raises and the exception is passed over.
CloseSendLeave ==
  /\ kpc = "idle"
  /\ cpc \in {"idle", "returned", "raised"}
  /\ IF nsock # None
     THEN \E ok \in (IF transport = "open" THEN {TRUE, FALSE} ELSE {FALSE}) :
            IF ok
            THEN /\ nsent' = Append(nsent, "leave")
                 /\ kleave' = "sent"
                 /\ kpc' = "sent"
            ELSE /\ kleave' = "failed"
                 /\ kpc' = IF Caught("OSError") THEN "sent" ELSE "raised"
                 /\ UNCHANGED nsent
     ELSE /\ kleave' = "no socket"
          /\ kpc' = "sent"
          /\ UNCHANGED nsent
  /\ UNCHANGED <<nsock, transport, session_key, running, recv_thread, on_message,
                 backlog, lists, cpc, craised, creply, rpc, renvc, rlistc,
                 decoded, spc, pending, si, delivered>>
  /\ UNCHANGED <<svars, avars, wvars, uvars, dvars, lvars, tvars, pvars, fvars>>

\* close(), line 104
CloseStop ==
  /\ kpc = "sent"
  /\ running' = FALSE
  /\ kpc' = "stopped"
  /\ UNCHANGED <<nsock, transport, session_key, recv_thread, on_message,
                 backlog, lists, cpc, craised, creply, nsent, rpc, renvc, rlistc,
                 decoded, spc, pending, si, delivered>>
  /\ UNCHANGED <<svars, avars, wvars, uvars, dvars, kleave, lvars, tvars, pvars, fvars>>

\* close(), lines 105-108: with a socket, sock.close(); what it raises is
\* passed over, and the descriptor is released either way.
CloseSocket ==
  /\ kpc = "stopped"
  /\ IF nsock # None
     THEN /\ transport' = "closed"
          /\ \E exc \in {None, "OSError"} :
               kpc' = IF exc = None \/ Caught(exc) THEN "done" ELSE "raised"
     ELSE /\ kpc' = "done"
          /\ UNCHANGED transport
  /\ UNCHANGED <<nsock, session_key, running, recv_thread, on_message,
                 backlog, lists, cpc, craised, creply, nsent, rpc, renvc, rlistc,
                 decoded, spc, pending, si, delivered>>
  /\ UNCHANGED <<svars, avars, wvars, uvars, dvars, kleave, lvars, tvars, pvars, fvars>>

\* _recv_loop, lines 183-184 and 190, once close() has cleared running: the
\* loop test fails and the thread ends, or the recv_json call it is in
\* raises on the closed socket.
RecvStopped ==
  /\ rpc = "recv"
  /\ ~running
  /\ kpc \in {"stopped", "done"}
  /\ \/ rpc' = "end"
     \/ /\ transport = "closed"
        /\ rpc' = "except"
  /\ UNCHANGED <<nsock, transport, session_key, running, recv_thread, on_message,
                 backlog, lists, cpc, craised, creply, nsent, renvc, rlistc,
                 decoded, spc, pending, si, delivered>>
  /\ UNCHANGED <<svars, avars, wvars, uvars, dvars, kvars, lvars, tvars, pvars, fvars>>

\* The steps of the receive thread.
RecvThread ==
  \/ RecvNext
  \/ RecvTest
  \/ RecvCall
  \/ RecvLoad
  \/ RecvAppend
  \/ RecvExcept
  \/ RecvExcCall
  \/ RecvStopped

\* close() is called by the thread that called connect() and attached the
\* callback, so none of those is under way while close() runs; the receive
\* thread runs on throughout.
NextClose ==
  \/ /\ kpc = "idle"
     /\ NextNet
  \/ /\ kpc # "idle"
     /\ RecvThread
  \/ CloseSendLeave
  \/ CloseStop
  \/ CloseSocket

SpecClose == Init /\ [][NextClose]_vars

\* ------------------------------------- client/net.py, the send functions
\* The user of this client and the other users.
Me == "alice"
Peers == {"bob", "carol"}

\* NetClient.session_key after connect(): the key aes_key() generated.
ClientKey == 1

send_public(key, text) ==
  Envelope("pub", Me, Star, encrypt_body(key, [text |-> text]))

send_private(key, to, text) ==
  Envelope("priv", Me, to, encrypt_body(key, [text |-> text]))

send_file_offer(key, to, file_id) ==
  Envelope("file_offer", Me, to, encrypt_body(key, [file_id |-> file_id]))

send_file_chunk(key, to, file_id, seq, chunk, final) ==
  Envelope("file_chunk", Me, to,
           encrypt_body(key, [id |-> file_id, seq |-> seq, final |-> final,
                              data |-> chunk]))

send_file_ack(key, to, file_id, accept) ==
  Envelope("file_ack", Me, to,
           encrypt_body(key, [id |-> file_id, accept |-> accept]))

\* connect(), line 65: the auth envelope.
AuthEnv == Envelope("auth", None, None, [username |-> Me])

\* connect(), line 94: the session key wrapped under the server's RSA key.
WrappedKeyEnv == Envelope("key", Me, None, [wrapped |-> ClientKey])

\* close(), line 100: the leave notice.
LeaveEnv == Envelope("system", Me, None, [event |-> "leave"])

\* The envelopes NetClient builds without encrypt_body.
HandshakeEnvs == {AuthEnv, WrappedKeyEnv, LeaveEnv}

\* The envelopes the five send functions build under session key key.
SendEnvs(key) ==
  {send_public(key, b) : b \in Bodies}
  \cup {send_private(key, to, b) : to \in Peers, b \in Bodies}
  \cup {send_file_offer(key, to, 1) : to \in Peers \cup {Star}}
  \cup {send_file_chunk(key, to, 1, 0, ch, ch = <<>>) : to \in Peers, ch \in {<<>>, <<"x">>}}
  \cup {send_file_ack(key, to, 1, acc) : to \in Peers, acc \in BOOLEAN}

\* One send_json call of NetClient, lines 65, 94, 100, 116, 123, 144, 165,
\* 178: the envelope handed to the socket. A send function called while
\* session_key is None raises in encrypt_body and hands over nothing.
ClientSend ==
  /\ \/ \E env \in HandshakeEnvs : usent' = <<env>>
     \/ \E key \in {NoKey, ClientKey} :
          IF key = NoKey
          THEN usent' = <<>>
          ELSE \E env \in SendEnvs(key) : usent' = <<env>>
  /\ usent' # usent
  /\ UNCHANGED <<current_upload, offers, answered, rejected, lastack, urunning>>
  /\ UNCHANGED <<svars, nvars, avars, wvars, dvars, kvars, lvars, tvars, pvars, fvars>>

\* Both hops: the server's workers and a client that writes to its socket.
NextHops ==
  \/ Next
  \/ ClientSend

SpecHops == Init /\ [][NextHops]_vars

\* ------------------------------------------- client/ui.py, the uploader
MaxOffers == 2    \* send_file calls
MaxFileLen == 3   \* bytes in an offered file
CHUNK == 2        \* bytes one f.read(CHUNK) returns at most

\* The files that can be chosen: their contents.
Files == {[i \in 1..n |-> "x"] : n \in 0..MaxFileLen}

Min(a, b) == IF a <= b THEN a ELSE b

\* f.read(CHUNK) on what is left of the file, and what is left after it.
Read(f) == SubSeq(f, 1, Min(CHUNK, Len(f)))
Unread(f) == SubSeq(f, Min(CHUNK, Len(f)) + 1, Len(f))

\* A counter that stays where it is.
Stay(seq) == seq

\* seq += 1
Succ(seq) == seq + 1

\* The file_ack handler's loop, lines 774-784: the envelopes it writes for
\* what is left of the file, starting at seq.
RECURSIVE UploadChunks(_, _, _, _)
UploadChunks(f, to, fid, seq) ==
  IF Read(f) = <<>>
  THEN <<send_file_chunk(ClientKey, to, fid, seq, <<>>, TRUE)>>
  ELSE <<send_file_chunk(ClientKey, to, fid, seq, Read(f), FALSE)>>
       \o UploadChunks(Unread(f), to, fid, Succ(seq))

\* send_file, lines 606-640: the user picks an addressee (nobody selected:
\* everybody) and a file; a fresh id is made, the offer is written and the
\* file becomes the current upload. When the write raises, line 640 is not
\* reached.
SendFile ==
  /\ Len(offers) < MaxOffers
  /\ \E to \in Peers \cup {Star}, f \in Files, ok \in BOOLEAN :
       LET file_id == Len(offers) + 1
       IN IF ok
          THEN /\ usent' = <<send_file_offer(ClientKey, to, file_id)>>
               /\ current_upload' = [path |-> f, file_id |-> file_id]
               /\ offers' = Append(offers, to)
          ELSE /\ usent' = <<>>
               /\ offers' = Append(offers, None)
               /\ UNCHANGED current_upload
  /\ lastack' = NoAck
  /\ UNCHANGED <<answered, rejected, urunning>>
  /\ UNCHANGED <<svars, nvars, avars, wvars, dvars, kvars, lvars, tvars, pvars, fvars>>

\* _process_encrypted_message, file_ack, lines 759-785, called by the
\* receive loop: peer p sends an ack naming id fid, which the handler takes
\* whether or not such an offer was made to p. A reject is shown and
\* nothing else; an accept streams the current upload to the ack's sender
\* under the ack's id. A write that raises ends the handler and, through
\* _recv_loop's except clause, the receive loop.
RecvAck(p, fid, accept) ==
  /\ urunning
  /\ <<p, fid>> \notin answered
  /\ answered' = answered \cup {<<p, fid>>}
  /\ lastack' = [from |-> p, id |-> fid, accept |-> accept]
  /\ IF ~accept
     THEN /\ rejected' = rejected \cup {fid}
          /\ usent' = <<>>
          /\ UNCHANGED urunning
     ELSE /\ UNCHANGED rejected
          /\ IF current_upload = NoUpload
             THEN /\ usent' = <<>>
                  /\ UNCHANGED urunning
             ELSE LET chunks == UploadChunks(current_upload.path, p, fid, 0)
                  IN \E k \in 0..Len(chunks) :
                       /\ usent' = SubSeq(chunks, 1, k)
                       /\ urunning' = (k = Len(chunks))
  /\ UNCHANGED <<current_upload, offers>>
  /\ UNCHANGED <<svars, nvars, avars, wvars, dvars, kvars, lvars, tvars, pvars, fvars>>

NextUpload ==
  \/ SendFile
  \/ \E p \in Peers, fid \in 1..MaxOffers, accept \in BOOLEAN :
       RecvAck(p, fid, accept)

SpecUpload == Init /\ [][NextUpload]_vars

\* ------------------------------------- client/ui.py, the receiver of files
MaxSeq == 1      \* highest seq of a chunk

Seqs == 0..MaxSeq
Datas == {<<"x">>, <<"y">>}

\* {"name": "file.bin", "chunks": {}, "next": 0}
NewCtx == [name |-> "file.bin", chunks |-> <<>>]

\* The context made when an offer is accepted.
OfferCtx == [name |-> "offered", chunks |-> <<>>]

\* ctx["chunks"][seq] = ch
SetChunk(ch, seq, d) ==
  [i \in DOMAIN ch \cup {seq} |-> IF i = seq THEN d ELSE ch[i]]

\* range(len(ctx["chunks"]))
Indexes(ch) == 0..(Cardinality(DOMAIN ch) - 1)

\* ctx["chunks"][i] raises KeyError for some i of the loop.
KeyError(ch) == \E i \in Indexes(ch) : i \notin DOMAIN ch

\* The loop of lines 796-798: the chunks with index lo..hi, one after another.
RECURSIVE Ordered(_, _, _)
Ordered(ch, lo, hi) ==
  IF lo > hi THEN <<>> ELSE ch[lo] \o Ordered(ch, lo + 1, hi)

\* self.current_downloads[fid] = ctx, and the mutation of a context held.
StoreCtx(dl, fid, ctx) == [dl EXCEPT ![fid] = ctx]

\* _show_file_offer_dialog answered yes, lines 317-327: the accepting
\* file_ack is written and the context of the transfer is made; when the
\* write raises, no context is made.
AcceptOffer(fid) ==
  /\ \E ok \in BOOLEAN :
       IF ok
       THEN /\ current_downloads' = StoreCtx(current_downloads, fid, OfferCtx)
            /\ dhist' = [dhist EXCEPT ![fid] = NoHist]
            /\ dres' = "accepted"
       ELSE /\ dres' = "raised"
            /\ UNCHANGED <<current_downloads, dhist>>
  /\ dlast' = NoChunk
  /\ lastsave' = NoSave
  /\ UNCHANGED drunning
  /\ UNCHANGED <<svars, nvars, avars, wvars, uvars, kvars, lvars, tvars, pvars, fvars>>

\* _process_encrypted_message, file_chunk, lines 786-815, called by the
\* receive loop. The chunk is stored under its seq in the context of its
\* id, which is made when there is none; a chunk marked final makes the
\* handler put the chunks 0..len-1 together, ask where to save, and delete
\* the context. A KeyError in that loop ends the handler and, through
\* _recv_loop's except clause, the receive loop.
RecvChunk(fid, seq, final, d) ==
  /\ drunning
  /\ LET held == current_downloads[fid]
         ctx == IF held = NoCtx THEN NewCtx ELSE held
         ch == SetChunk(ctx.chunks, seq, d)
         stored == StoreCtx(current_downloads, fid, [ctx EXCEPT !.chunks = ch])
         h == dhist[fid]
         now == [final |-> IF final THEN seq ELSE h.final,
                 proper |-> /\ h.proper
                            /\ seq \notin DOMAIN ctx.chunks
                            /\ final => h.final = NoSeq
                            /\ final => \A i \in DOMAIN ch : i <= seq
                            /\ (~final /\ h.final # NoSeq) => seq < h.final]
     IN IF ~final
        THEN /\ current_downloads' = stored
             /\ dhist' = [dhist EXCEPT ![fid] = now]
             /\ dres' = "stored"
             /\ lastsave' = NoSave
             /\ UNCHANGED drunning
        ELSE IF KeyError(ch)
        THEN /\ current_downloads' = stored
             /\ dhist' = [dhist EXCEPT ![fid] = now]
             /\ dres' = "KeyError"
             /\ lastsave' = NoSave
             /\ drunning' = FALSE
        ELSE /\ \E save \in BOOLEAN :
                  lastsave' = [id |-> fid,
                               data |-> Ordered(ch, 0, Cardinality(DOMAIN ch) - 1),
                               saved |-> save]
             /\ current_downloads' = [stored EXCEPT ![fid] = NoCtx]
             /\ dhist' = [dhist EXCEPT ![fid] = NoHist]
             /\ dres' = "finalized"
             /\ UNCHANGED drunning
  /\ dlast' = [id |-> fid, seq |-> seq, final |-> final, data |-> d]
  /\ UNCHANGED <<svars, nvars, avars, wvars, uvars, kvars, lvars, tvars, pvars, fvars>>

NextDownload ==
  \/ \E fid \in DownloadIds : AcceptOffer(fid)
  \/ \E fid \in DownloadIds, seq \in Seqs, final \in BOOLEAN, d \in Datas :
       RecvChunk(fid, seq, final, d)

SpecDownload == Init /\ [][NextDownload]_vars

\* ------------------------------------------------------------ properties
\* The step of worker c that leaves route's dispatch.
DispatchStep(c) == pc[c] = "route_dispatch" /\ pc'[c] # "route_dispatch"

\* A step of worker c in route's delivery part: one recipient, or the bounce.
SendStep(c) ==
  pc[c] = "route_send" /\ (pc'[c] # "route_send" \/ rlist'[c] # rlist[c])

\* The step called send_json exactly once, on socket s with envelope env.
Wrote(s, env) ==
  /\ Len(lastw') = 1
  /\ lastw'[1].sock = s
  /\ lastw'[1].env = env

\* The record registered under the to field of the envelope route is working on.
Recipient(c) == Lookup(clients, recUser, renv[c].to)

\* The envelope names one recipient: any routed type but pub and the
\* broadcast file_offer.
IsDirect(env) ==
  /\ env.type \in {"priv", "file_offer", "file_chunk", "file_ack"}
  /\ ~(env.type = "file_offer" /\ env.to = Star)

\* The sender's plaintext under the key of record r, in an envelope of the
\* routed type with the given to field.
Reencrypted(c, to, r) ==
  [type |-> renv[c].type, sender |-> renv[c].sender, to |-> to,
   payload |-> [enc |-> [k |-> aes_key[r], body |-> renv[c].payload.enc.body]]]

\* The registry holds a record once and a name once.
RegistryDistinct ==
  \A i, j \in 1..Len(clients) :
    i # j => clients[i] # clients[j] /\ recUser[clients[i]] # recUser[clients[j]]

\* C1 as stated: the cleanup of a worker whose auth named a username that
\* another record held leaves that record in the registry, the worker of
\* that record being in its receive loop.
C1_FirstRegistrantKept ==
  [][\A c \in Conns :
       (/\ pc[c] = "finally"
        /\ pc'[c] = "done"
        /\ hist[c] \in Range(clients)
        /\ pc[hist[c]] = "loop")
       => hist[c] \in Range(clients')]_vars

C3_FreshAuthRegisters ==
  [][/\ \A c \in Conns :
          (pc[c] = "recv_auth" /\ hist'[c] = NoConn)
          => /\ c \in Range(clients')
             /\ recUser'[c] = username'[c]
             /\ aes_key'[c] = NoKey
             /\ Len(lastw') = 1
             /\ lastw'[1].sock = c
             /\ lastw'[1].env.type = "key"
     /\ \A r \in Conns :
          aes_key'[r] # aes_key[r] => pc[r] = "recv_key" /\ pc'[r] # "recv_key"]_vars

\* C4 as stated: a pub that route accepted is written, re-encrypted, to the
\* socket of every record registered when route reads the registry, the
\* sender's included, once each.
C4_PubToEveryRegistered ==
  [][\A c \in Conns :
       /\ (DispatchStep(c) /\ renv[c].type = "pub")
          => rmode'[c] = "pub" /\ rlist'[c] = clients
       /\ (SendStep(c) /\ rmode[c] = "pub" /\ rlist[c] # <<>>)
          => Wrote(Head(rlist[c]), Reencrypted(c, Star, Head(rlist[c])))]_vars

\* C4 amended: route takes every registered record, the sender's included,
\* once each; it calls send_json once on the socket of each that holds a
\* session key at its turn, with the sender's plaintext under that record's
\* key, writes nothing for a record without key, and goes on to the next
\* record whatever the write did.
C4_PubToEveryKeyed ==
  [][\A c \in Conns :
       /\ RegistryDistinct
       /\ (DispatchStep(c) /\ renv[c].type = "pub")
          => rmode'[c] = "pub" /\ rlist'[c] = clients
       /\ (SendStep(c) /\ rmode[c] = "pub" /\ rlist[c] # <<>>)
          => LET r == Head(rlist[c]) IN
               /\ aes_key[r] # NoKey => Wrote(r, Reencrypted(c, Star, r))
               /\ aes_key[r] = NoKey => lastw' = <<>>
               /\ Len(rlist[c]) > 1
                  => rlist'[c] = Tail(rlist[c]) /\ pc'[c] = "route_send"]_vars

\* C4 witness: a fan-out under way that has written the pub to one record,
\* has another still to go, and the sender's own record is one of the two.
C4_Witness ==
  \E c \in Conns :
    /\ pc[c] = "route_send"
    /\ rmode[c] = "pub"
    /\ Len(rlist[c]) = 1
    /\ Len(lastw) = 1
    /\ lastw[1].ok
    /\ lastw[1].env.type = "pub"
    /\ lastw[1].sock # Head(rlist[c])
    /\ renv[c].sender \in {recUser[lastw[1].sock], recUser[Head(rlist[c])]}

\* C5: every envelope of a routed type that is written to a socket carries
\* a body encrypted under the session key stored in the record of that
\* socket, which is set.
C5_RecipientKey ==
  \A i \in 1..Len(lastw) :
    lastw[i].env.type \in RoutedTypes
    => /\ lastw[i].env.payload.enc.k = aes_key[lastw[i].sock]
       /\ lastw[i].env.payload.enc.k # NoKey

\* C5 witness: a routed envelope was written to a record other than the
\* sender's, whose key differs from the sender's.
C5_Witness ==
  /\ Len(lastw) = 1
  /\ lastw[1].ok
  /\ lastw[1].env.type \in RoutedTypes
  /\ recUser[lastw[1].sock] # lastw[1].env.sender
  /\ LET a == Lookup(clients, recUser, lastw[1].env.sender) IN
       a # NoConn /\ aes_key[a] # aes_key[lastw[1].sock]

\* C6 as stated: an envelope for one named recipient goes to that
\* recipient's socket alone whenever the recipient is in the registry, and
\* is bounced only when the recipient is not.
C6_DirectWhenPresent ==
  [][\A c \in Conns :
       /\ (DispatchStep(c) /\ IsDirect(renv[c]))
          => IF Recipient(c) # NoConn
             THEN rmode'[c] = "direct" /\ rlist'[c] = <<Recipient(c)>>
             ELSE rmode'[c] = "bounce"
       /\ (SendStep(c) /\ rmode[c] = "direct")
          => /\ Wrote(Head(rlist[c]), Reencrypted(c, renv[c].to, Head(rlist[c])))
             /\ pc'[c] = "loop"]_vars

\* C6 amended: an envelope for one named recipient goes to that recipient's
\* socket alone, with no error to the sender, when the recipient is in the
\* registry and holds a session key; it is bounced when the recipient is
\* absent or holds no session key yet.
C6_DirectWhenKeyed ==
  [][\A c \in Conns :
       /\ (DispatchStep(c) /\ IsDirect(renv[c]))
          => IF Recipient(c) # NoConn /\ aes_key[Recipient(c)] # NoKey
             THEN rmode'[c] = "direct" /\ rlist'[c] = <<Recipient(c)>>
             ELSE rmode'[c] = "bounce" /\ rlist'[c] = <<>>
       /\ (SendStep(c) /\ rmode[c] = "direct")
          => /\ recUser[Head(rlist[c])] = renv[c].to
             /\ Wrote(Head(rlist[c]), Reencrypted(c, renv[c].to, Head(rlist[c])))
             /\ pc'[c] = "loop"]_vars

\* C6 witness: a priv, file_chunk or file_ack was written to the socket of
\* the record its to field names.
C6_Witness ==
  /\ Len(lastw) = 1
  /\ lastw[1].ok
  /\ lastw[1].env.type \in {"priv", "file_chunk", "file_ack"}
  /\ lastw[1].env.to = recUser[lastw[1].sock]

\* C7: when the named recipient is not in the registry, route takes the
\* bounce, and the bounce calls send_json once: on the socket of the
\* sender's record, with error USER_NOT_FOUND naming the recipient; nothing
\* goes to any other socket.
C7_BounceToSenderOnly ==
  [][\A c \in Conns :
       /\ (DispatchStep(c) /\ IsDirect(renv[c]) /\ Recipient(c) = NoConn)
          => rmode'[c] = "bounce" /\ rlist'[c] = <<>>
       /\ (SendStep(c) /\ rmode[c] = "bounce")
          => /\ recUser[rcs[c]] = renv[c].sender
             /\ Wrote(rcs[c],
                      [type |-> "error", sender |-> None, to |-> renv[c].sender,
                       payload |-> [code |-> "USER_NOT_FOUND", user |-> renv[c].to]])
             /\ pc'[c] # "route_send"]_vars

\* C7 witness: USER_NOT_FOUND was written to the sender's socket for a
\* recipient the registry does not hold.
C7_Witness ==
  /\ Len(lastw) = 1
  /\ lastw[1].ok
  /\ lastw[1].env.type = "error"
  /\ lastw[1].env.payload.code = "USER_NOT_FOUND"
  /\ recUser[lastw[1].sock] = lastw[1].env.to
  /\ Lookup(clients, recUser, lastw[1].env.payload.user) = NoConn

\* C8: a file_offer to "*" takes every registered record; send_json is
\* called once on the socket of each that holds a session key and is not
\* the sender's, with the to field set to that record's name, and nothing is
\* written for the sender's record or a record without key.
C8_OfferToOthers ==
  [][\A c \in Conns :
       /\ (DispatchStep(c) /\ renv[c].type = "file_offer" /\ renv[c].to = Star)
          => rmode'[c] = "offer" /\ rlist'[c] = clients
       /\ (SendStep(c) /\ rmode[c] = "offer" /\ rlist[c] # <<>>)
          => LET r == Head(rlist[c]) IN
               IF recUser[r] # renv[c].sender /\ aes_key[r] # NoKey
               THEN Wrote(r, Reencrypted(c, recUser[r], r))
               ELSE lastw' = <<>>]_vars

\* C8 witness: a broadcast offer under way has been written to a record
\* other than the sender's, and the sender's record is the one left.
C8_Witness ==
  \E c \in Conns :
    /\ pc[c] = "route_send"
    /\ rmode[c] = "offer"
    /\ Len(rlist[c]) = 1
    /\ recUser[Head(rlist[c])] = renv[c].sender
    /\ Len(lastw) = 1
    /\ lastw[1].ok
    /\ lastw[1].env.type = "file_offer"
    /\ lastw[1].env.to = recUser[lastw[1].sock]
    /\ lastw[1].env.to # renv[c].sender

\* C9: a routed envelope whose sender field names no record, or a record
\* without session key, is dropped: nothing is written, the registry and
\* its records are unchanged, route does not go on, the worker stays in
\* its loop.
C9_UnknownSenderDropped ==
  [][(lastin'.kind = "route" /\ ~lastin'.keyed)
     => /\ lastw' = <<>>
        /\ UNCHANGED <<clients, recUser, aes_key, rvars, closed>>
        /\ pc'[lastin'.caller] = "loop"]_vars

\* C9 witness: the last step took a routed envelope whose sender field
\* names a record that holds no session key.
C9_Witness ==
  /\ lastin.kind = "route"
  /\ lastin.sender # NoConn
  /\ ~lastin.keyed

\* C10: a routed envelope whose body does not decrypt under the session key
\* of the sender's record is dropped: nothing is written to any socket, the
\* registry is unchanged, no socket is closed and the worker stays in its
\* loop.
C10_UndecryptableDropped ==
  [][(lastin'.kind = "route" /\ lastin'.keyed /\ ~lastin'.decrypts)
     => /\ lastw' = <<>>
        /\ UNCHANGED <<clients, recUser, aes_key, rvars, closed>>
        /\ pc'[lastin'.caller] = "loop"]_vars

\* C10 witness: the last step took a routed envelope from a sender with a
\* session key whose body does not decrypt under it.
C10_Witness ==
  /\ lastin.kind = "route"
  /\ lastin.keyed
  /\ ~lastin.decrypts

\* How many times envelope e was passed to the callback.
TimesDelivered(e) == Cardinality({i \in 1..Len(delivered) : delivered[i] = e})

\* C11 as stated: once the callback is attached and the setter has returned,
\* and the receive thread holds no envelope, every envelope the loop decoded
\* has been passed to the callback exactly once.
C11_EachEnvelopeOnce ==
  (spc = "done" /\ rpc \in {"recv", "end"})
  => \A e \in 1..decoded : TimesDelivered(e) = 1

\* C12 as stated: the callback is passed the decoded envelopes in the order
\* in which the receive loop decoded them.
C12_ArrivalOrder ==
  \A i, j \in 1..Len(delivered) :
    (i < j /\ delivered[i] # Disconnected /\ delivered[j] # Disconnected)
    => delivered[i] < delivered[j]

\* C13 as stated: when the receive loop has ended on an error and a callback
\* has been attached, the callback has been passed the disconnection notice
\* exactly once.
C13_OneDisconnectNotice ==
  (rpc = "end" /\ spc = "done") => TimesDelivered(Disconnected) = 1

C15_HandshakeViolationsFatal ==
  [][/\ lastin'.kind = "not_auth"
        => LET c == lastin'.caller IN
             /\ Wrote(c, [type |-> "error", sender |-> None, to |-> None,
                          payload |-> [code |-> "EXPECT_AUTH"]])
             /\ closed'[c]
             /\ UNCHANGED <<clients, recUser, aes_key>>
             /\ pc'[c] = "done"
     /\ lastin'.kind = "not_key"
        => LET c == lastin'.caller IN
             /\ Wrote(c, [type |-> "error", sender |-> None, to |-> username[c],
                          payload |-> [code |-> "EXPECT_AES_KEY"]])
             /\ pc'[c] = "finally"
     /\ \A c \in Conns :
          (/\ lastin.kind = "not_key"
           /\ lastin.caller = c
           /\ pc[c] = "finally"
           /\ pc'[c] = "done")
          => c \notin Range(clients') /\ closed'[c]]_vars

C18_RemainingNotified ==
  [][\A c \in Conns :
       (pc[c] = "finally" /\ pc'[c] = "done" /\ c \in Range(clients))
       => /\ \A r \in Range(clients') :
               /\ \E i \in 1..Len(lastw') :
                    /\ lastw'[i].sock = r
                    /\ lastw'[i].env.type = "system"
                    /\ lastw'[i].env.payload.text = <<recUser[c], "left">>
               /\ \E i \in 1..Len(lastw') :
                    /\ lastw'[i].sock = r
                    /\ lastw'[i].env.type = "userlist"
                    /\ \A k \in 1..Len(lastw'[i].env.payload.users) :
                         lastw'[i].env.payload.users[k] # recUser[c]
          /\ closed'[c]]_vars

\* The workers whose add_client call for name u returned True.
Winners(u) == {c \in Conns : recUser[c] = u /\ aret[c] = "True"}

\* C19: of the add_client calls for one username at most one returns True;
\* once any of them has returned, exactly one has won and the registry maps
\* the name to the winner's record; and the step in which a call fails
\* leaves the registry as it was.
C19_AddClientAtomic ==
  /\ [](\A u \in Users :
          /\ Cardinality(Winners(u)) <= 1
          /\ \A c \in Conns :
               (recUser[c] = u /\ apc[c] = "returned")
               => /\ Cardinality(Winners(u)) = 1
                  /\ Lookup(clients, recUser, u) \in Winners(u))
  /\ [][\A c \in Conns :
          (aret'[c] = "False" /\ aret[c] # "False") => clients' = clients]_vars

\* C19 witness: two calls for the same name have both returned, one True
\* and one False, and the registry holds the winner's record alone.
C19_Witness ==
  \E c, d \in Conns :
    /\ c # d
    /\ recUser[c] = recUser[d]
    /\ apc[c] = "returned" /\ apc[d] = "returned"
    /\ aret[c] = "True" /\ aret[d] = "False"
    /\ clients = <<c>>

\* What the recv_json calls on the current connection returned: the
\* outcomes without a final ConnectionError.
Envelopes ==
  IF returned # <<>> /\ returned[Len(returned)] = ConnectionError
  THEN SubSeq(returned, 1, Len(returned) - 1)
  ELSE returned

\* C20: the envelopes the successive recv_json calls return on a connection
\* are the envelopes written on it with send_json, one per call and in
\* order, however the stream is cut into reads; and between two calls the
\* bytes read beyond the returned lines are in the residual buffer, so that
\* buffer and unread stream together are the lines still to come.
C20_FramingRoundTrip ==
  /\ Len(Envelopes) <= Len(sent)
  /\ Envelopes = SubSeq(sent, 1, Len(Envelopes))
  /\ (wpc = "idle" /\ Envelopes # <<>>) =>
       buffers \o wire = DataAll(SubSeq(sent, Len(Envelopes) + 1, Len(sent)))

\* The buffer holds a complete line.
HasLine(buf) == \E i \in 1..Len(buf) : buf[i] = DELIM

\* The bytes of the buffer before its first delimiter.
RECURSIVE FirstLine(_)
FirstLine(buf) ==
  IF buf = <<>> \/ Head(buf) = DELIM THEN <<>>
  ELSE <<Head(buf)>> \o FirstLine(Tail(buf))

\* The step ends a recv_json call by raising ConnectionError.
RaisedClosed ==
  /\ Len(returned') = Len(returned) + 1
  /\ returned'[Len(returned')] = ConnectionError

BodyOf(env) == env.payload.enc.body

\* The step handled an accepting file_ack with an upload at hand.
AcceptStep ==
  /\ answered' # answered
  /\ lastack'.accept
  /\ current_upload # NoUpload

\* C22: the envelopes the handler of an accepting file_ack writes are
\* file_chunk envelopes with seq 0, 1, 2, ... in the order written, none
\* but the last of the stream marked final; the stream, when every write
\* succeeds, ends with the one chunk marked final, whose seq is the number
\* of chunks written before it (0 for an empty file).
C22_ChunkSequence ==
  [][AcceptStep =>
       LET n == Len(usent')
       IN /\ \A i \in 1..n :
               /\ usent'[i].type = "file_chunk"
               /\ BodyOf(usent'[i]).seq = i - 1
               /\ BodyOf(usent'[i]).final <=> (urunning' /\ i = n)
          /\ urunning' =>
               /\ n >= 1
               /\ BodyOf(usent'[n]).seq =
                    Cardinality({i \in 1..n : ~BodyOf(usent'[i]).final})]_vars

\* C22 witness: an accepted file of more than one chunk was streamed: two
\* data chunks and the final marker were written.
C22_Witness ==
  /\ lastack.accept
  /\ urunning
  /\ Len(usent) = 3
  /\ BodyOf(usent[3]).final
  /\ BodyOf(usent[3]).seq = 2

\* C24: no step writes a file_chunk for a transfer id for which a file_ack
\* with accept false was handled before.
C24_NoChunkAfterReject ==
  [][\A i \in 1..Len(usent') :
       (answered' # answered /\ usent'[i].type = "file_chunk")
       => BodyOf(usent'[i]).id \notin rejected]_vars

\* The step handled a file_chunk.
ChunkStep == dlast' # NoChunk /\ (dlast' # dlast \/ dres' # dres \/
                                  current_downloads' # current_downloads \/
                                  lastsave' # lastsave \/ drunning' # drunning)

\* The chunks of the transfer that have arrived once the step's chunk is in.
Arrived == [i \in DOMAIN current_downloads[dlast'.id].chunks \cup {dlast'.seq}
              |-> IF i = dlast'.seq THEN dlast'.data
                  ELSE current_downloads[dlast'.id].chunks[i]]

\* The seq of the final chunk among them, NoSeq when it has not arrived.
ArrivedFinal ==
  IF dlast'.final THEN dlast'.seq ELSE dhist[dlast'.id].final

\* The chunks so far are chunks of one transfer, each arrived once: no seq
\* twice, one final marker at most, no seq above the final one's.
ProperSoFar ==
  /\ dhist[dlast'.id].proper
  /\ dlast'.seq \notin DOMAIN current_downloads[dlast'.id].chunks
  /\ dlast'.final => dhist[dlast'.id].final = NoSeq
  /\ ArrivedFinal # NoSeq => \A i \in DOMAIN Arrived : i <= ArrivedFinal

\* The concatenation of the arrived chunks lo..hi in ascending seq.
RECURSIVE Ascending(_, _)
Ascending(lo, hi) ==
  IF lo > hi THEN <<>> ELSE Arrived[lo] \o Ascending(lo + 1, hi)

\* C23: whatever the order in which the chunks of a transfer arrive, the
\* handler of the chunk that completes it (final marker in, every seq up to
\* the final one in) reconstructs the chunks in ascending seq and discards
\* the context; the handler of any earlier chunk, the final marker
\* included, keeps the context with the chunk stored and does not fail.
C23_ReassemblyAnyOrder ==
  [][(ChunkStep /\ ProperSoFar) =>
       IF ArrivedFinal # NoSeq /\ DOMAIN Arrived = 0..ArrivedFinal
       THEN /\ dres' = "finalized"
            /\ lastsave'.id = dlast'.id
            /\ lastsave'.data = Ascending(0, ArrivedFinal)
            /\ current_downloads'[dlast'.id] = NoCtx
       ELSE /\ dres' = "stored"
            /\ drunning'
            /\ current_downloads'[dlast'.id] # NoCtx
            /\ current_downloads'[dlast'.id].chunks = Arrived]_vars

\* C29: the handler of a file_chunk for an id without a context makes a
\* context for the id with the chunk under its seq (and, the chunk being a
\* transfer of its own, reconstructs it and discards the context), raises
\* no error, and leaves the contexts of the other ids as they are.
C29_ChunkWithoutContext ==
  [][(ChunkStep /\ current_downloads[dlast'.id] = NoCtx) =>
       /\ dres' # "KeyError"
       /\ drunning'
       /\ \A f \in DownloadIds \ {dlast'.id} :
            current_downloads'[f] = current_downloads[f]
       /\ \/ /\ dres' = "stored"
             /\ current_downloads'[dlast'.id].chunks = Arrived
          \/ /\ dres' = "finalized"
             /\ lastsave'.data = dlast'.data
             /\ current_downloads'[dlast'.id] = NoCtx]_vars

\* C26: close() does not raise; with a socket it tries to write the leave
\* envelope, and whether that write succeeds or raises, when close() has
\* returned running is false and the socket is closed (no transport is
\* open).
C26_CloseAlwaysCloses ==
  /\ kpc # "raised"
  /\ kpc # "idle" => (kleave = "no socket" <=> nsock = None)
  /\ kpc = "done" =>
       /\ ~running
       /\ transport # "open"
       /\ nsock # None => transport = "closed"

\* C26 witness: close() returned after its leave envelope could not be
\* written, and the socket is closed.
C26_Witness ==
  /\ kpc = "done"
  /\ kleave = "failed"
  /\ transport = "closed"
  /\ cpc = "returned"

\* Envelope e, decoded by the receive loop, is somewhere: passed to the
\* callback, in the backlog, in the receive thread's hands, or in the list
\* the setter is flushing, at an index the flush has not passed.
NotLost(e) ==
  \/ TimesDelivered(e) >= 1
  \/ \E i \in 1..Len(lists[backlog]) : lists[backlog][i] = e
  \/ (renvc = e /\ rpc \in {"test", "call", "load", "append"})
  \/ /\ spc = "flush"
     /\ \E i \in si..Len(lists[pending]) : lists[pending][i] = e

\* C27: the receive loop runs from before the key envelope is written, and
\* once connect() has written the key envelope and returned, every envelope
\* the loop has taken from the connection has reached the callback or the
\* backlog: none is lost.
C27_NoneLostAfterKey ==
  /\ cpc \in {"send_key", "returned"} => recv_thread = "started"
  /\ cpc = "returned" => \A e \in 1..decoded : NotLost(e)

\* C28: no socket call is made by a worker that holds the registry lock,
\* and every registry operation has released the lock when it returns: a
\* worker outside the with blocks does not hold it.
C28_NoLockAcrossIo ==
  /\ ~lastio.held
  /\ \A c \in Conns :
       apc[c] \in {"idle", "built", "acquire", "returned"} => lock # c

\* C28 witness: a worker made its socket call after broadcast() returned
\* while another worker was inside a registry operation, holding the lock.
C28_Witness ==
  /\ lastio.worker # NoConn
  /\ lastio.after = "broadcast"
  /\ lock # NoConn
  /\ lock # lastio.worker

\* C30: no system or userlist envelope of another worker's broadcast is
\* written to a connection's socket between its registration and its key
\* envelope, so that the first envelope its client reads after auth is the
\* key envelope or an error.
C30_KeyEnvelopeFirst ==
  \A i \in 1..Len(lastw) :
    (lastw[i].ok /\ lastw[i].env.type \in {"system", "userlist"})
      => pc[lastw[i].sock] # "send_key"

\* The types whose payload is plaintext.
PlainTypes == {"auth", "key", "system", "userlist", "error"}

\* An envelope as it may go on the wire: a routed type with the enc
\* wrapper, or one of the plaintext types without it.
HopOk(env) ==
  IF env.type \in RoutedTypes
  THEN "enc" \in DOMAIN env.payload
  ELSE env.type \in PlainTypes /\ "enc" \notin DOMAIN env.payload

\* C25: every envelope the client hands to its socket and every envelope
\* the server hands to a recipient's socket has a plaintext payload only
\* when its type is auth, key, system, userlist or error; every pub, priv,
\* file_offer, file_chunk and file_ack carries the enc wrapper.
C25_EncryptedOnBothHops ==
  /\ \A i \in 1..Len(usent) : HopOk(usent[i])
  /\ \A i \in 1..Len(lastw) : HopOk(lastw[i].env)

\* C25 witness: the client has put a routed envelope on the wire, and the
\* server has written a routed envelope to a recipient other than the
\* worker that took it, re-encrypted under the recipient's key.
C25_Witness ==
  /\ usent # <<>>
  /\ usent[1].type \in RoutedTypes
  /\ \E i \in 1..Len(lastw) :
       /\ lastw[i].ok
       /\ lastw[i].env.type \in RoutedTypes
       /\ recUser[lastw[i].sock] # lastw[i].env.sender
       /\ lastw[i].env.payload.enc.k = aes_key[lastw[i].sock]

\* C31: the session key held by a registry record is the key unwrapped from
\* the key envelope that arrived on that record's own socket (the client of
\* connection c wraps key c), or the record holds none: no key step installs
\* its key into a record another connection created under the same name.
C31_KeyFromOwnSocket ==
  \A i \in 1..Len(clients) : aes_key[clients[i]] \in {NoKey, clients[i]}

\* C32: a connection on which nothing has been written yet has an empty
\* residual buffer: recv_json on a new connection starts from no bytes of an
\* earlier, closed connection, also when the new socket has the descriptor
\* number of the old one.
C32_FreshBufferPerConnection ==
  sent = <<>> => buffers = <<>>

\* C33: when a write to a peer's socket raises during the joined notice or
\* the userlist push of a worker that has just taken its client's key
\* envelope, only that peer is affected: every registered socket is still
\* handed the notice and the userlist, and the broadcasting worker goes on
\* to its loop.
C33_BroadcastFailureIsolated ==
  [][\A c \in Conns :
       (/\ pc[c] = "recv_key"
        /\ pc'[c] # "recv_key"
        /\ \E i \in 1..Len(lastw') :
             /\ lastw'[i].env.type \in {"system", "userlist"}
             /\ ~lastw'[i].ok
             /\ lastw'[i].sock # c)
       => /\ pc'[c] = "loop"
          /\ \A r \in Range(clients) :
               /\ \E i \in 1..Len(lastw') :
                    lastw'[i].sock = r /\ lastw'[i].env.type = "system"
               /\ \E i \in 1..Len(lastw') :
                    lastw'[i].sock = r /\ lastw'[i].env.type = "userlist"]_vars

\* C34: the handler of an accepting file_ack writes file_chunk envelopes
\* only when the ack's id is the file_id of the pending offer
\* (current_upload); an ack naming an id that was never offered makes it
\* write nothing.
C34_ChunksOnlyForPendingOffer ==
  [][(answered' # answered /\ lastack'.accept /\ usent' # <<>>)
     => lastack'.id = current_upload.file_id]_vars

\* C35: a callback that raises does not stop the delivery of the envelopes
\* that follow: after a live call the receive thread is back at recv_json,
\* and after a replayed call the setter is still in its replay loop.
C35_CallbackFailureSurvived ==
  [][/\ (rpc = "call" /\ rpc' # "call") => rpc' = "recv"
     /\ (spc = "flush" /\ si' # si) => (spc' = "flush" /\ si' = si + 1)]_vars

\* The stream is a sequence of whole lines, each the line of an envelope.
RECURSIVE Framed(_)
Framed(stream) ==
  \/ stream = <<>>
  \/ \E o \in Objs :
       /\ Len(stream) >= Len(Data(o))
       /\ SubSeq(stream, 1, Len(Data(o))) = Data(o)
       /\ Framed(SubSeq(stream, Len(Data(o)) + 1, Len(stream)))

\* C36: once the send_json calls of the workers writing to one socket have
\* returned, the bytes written to the socket are whole newline-terminated
\* envelopes, one after another: the bytes of two envelopes are not
\* interleaved.
C36_WholeEnvelopesOnSocket ==
  (\A c \in Conns : left[c] = <<>>) => Framed(wire)

\* C37: when no worker is joining, leaving or inside push_userlist, the
\* userlist last written to the socket of every registered connection
\* names exactly the usernames of the registry.
C37_LastUserlistCurrent ==
  (\A c \in Conns : ppc[c] \in {"out", "loop", "done"})
    => \A i \in 1..Len(clients) :
         Range(lastlist[clients[i]]) = Range(users_list(clients))

\* C38: route goes on to its dispatch only with an envelope whose sender
\* field names a registered record and whose body is encrypted under that
\* record's session key; what it then writes carries that sender field, and
\* a bounce goes to that record's socket. An envelope whose sender field
\* names another identity than the one its connection authenticated as,
\* encrypted under the connection's own key, makes the worker write nothing
\* and stay in its loop.
C38_SenderProvenByKey ==
  [][\A c \in Conns :
       /\ (pc[c] = "loop" /\ pc'[c] = "route_dispatch")
          => /\ rcs'[c] # NoConn
             /\ recUser[rcs'[c]] = renv'[c].sender
             /\ "enc" \in DOMAIN renv'[c].payload
             /\ renv'[c].payload.enc.k = aes_key[rcs'[c]]
       /\ (/\ lastin'.kind = "route"
           /\ lastin'.caller = c
           /\ lastin'.own
           /\ lastin'.name # username[c])
          => /\ lastw' = <<>>
             /\ pc'[c] = "loop"
             /\ UNCHANGED rvars
       /\ SendStep(c)
          => \A i \in 1..Len(lastw') :
               IF rmode[c] = "bounce"
               THEN lastw'[i].sock = rcs[c] /\ lastw'[i].env.to = renv[c].sender
               ELSE lastw'[i].env.sender = renv[c].sender]_vars

\* C38 witness: a worker whose connection authenticated under one name and
\* holds a session key has taken an envelope whose sender field names
\* another, registered and keyed identity, encrypted under its own client's
\* key, and is in its loop with nothing written.
C38_Witness ==
  /\ lastin.kind = "route"
  /\ lastin.own
  /\ lastin.keyed
  /\ lastin.sender # lastin.caller
  /\ lastin.name # username[lastin.caller]
  /\ aes_key[lastin.caller] = lastin.caller
  /\ pc[lastin.caller] = "loop"
  /\ lastw = <<>>

\* C39: of two envelopes a client wrote on one connection for the same
\* recipient, the forward of the earlier one is written to the recipient's
\* socket before the forward of the later one, whatever the other workers
\* write in between.
C39_PerPairFifo ==
  \A i, j \in 1..Len(outs) :
    (i < j /\ outs[i][1] = outs[j][1]) => outs[i][2] < outs[j][2]

\* C39 witness: both envelopes of one connection were forwarded, with a
\* forward of another worker written between them.
C39_Witness ==
  /\ Len(outs) >= 3
  /\ outs[1][1] = outs[3][1]
  /\ outs[2][1] # outs[1][1]
  /\ outs[1][2] = 1
  /\ outs[3][2] = 2

\* C40: a worker that never broadcast the joined notice writes no left
\* notice and no userlist when it ends: neither a worker whose registration
\* was refused or raised (it built no record), nor one whose key exchange
\* failed (its record is registered and has no key).
C40_LeftOnlyAfterJoined ==
  [][\A c \in Conns :
       (/\ pc[c] = "finally"
        /\ pc'[c] = "done"
        /\ \/ recUser[c] = None
           \/ c \in Range(clients) /\ aes_key[c] = NoKey)
       => \A i \in 1..Len(lastw') : lastw'[i].env.type \notin {"system", "userlist"}]_vars

====
